---- MODULE Spec2Model ----
(***************************************************************************)
(* Model of the codex_home job orchestrator: the job store (repository.py, *)
(* models.py), the queue and kill switch (queueing.py), the control plane  *)
(* and intake (orchestrator.py) and the stage runner (job_runner.py).      *)
(*                                                                         *)
(* Money is counted in micro-USD.  A worker holds a session copy of the    *)
(* job row it dispatches: the session factory is built with                *)
(* expire_on_commit=False (db.py), so Session.get returns the cached       *)
(* object and a commit writes only the columns whose value changed in the  *)
(* session.  Every commit of the runner is one step of a worker, so that   *)
(* control-plane requests and other workers interleave between them.       *)
(***************************************************************************)
EXTENDS Integers, Sequences, FiniteSets, TLC

\* ---------------------------------------------------------------- types.py

None == "none"

RiskClass == {"code", "deps", "infra", "secrets", "destructive"}

ApprovalAction == {"merge", "infra", "secrets", "destructive"}

JobStatus == {"queued", "running", "awaiting_approval", "completed", "failed", "rejected"}

TerminalStatus == {"completed", "failed", "rejected"}

NonTerminalStatus == {"queued", "running", "awaiting_approval"}

StageNames == <<"triage", "plan", "execute", "test", "review", "pr">>

\* Caps.max_usd default (3.0 USD).
DefaultCapsMaxUsd == 3000000

\* LLMClient.generate in fast mode: (prompt_tokens + completion_tokens) * 0.000001
\* USD, about 60 tokens for the prompts of the runner.
\* QUEUE_RETRY_MAX, the retries the queue is given per message.
queue_retry_max == 2
\* The interval used when the configured list has no positive value.
DefaultRetryInterval == 30
\* Interval values of the model: the defaults of QUEUE_RETRY_INTERVALS, and two
\* values that are not positive.
IntervalValues == {-5, 0, 30, 120}
\* The default of JobCreateRequest.base_branch and TextIntakeRequest.base_branch.
DefaultRequestBaseBranch == "main"
FastModeCost == 60

\* response_cost values a completion of the real model reports (0 when absent).
ReleaseModeCosts == {0, 2 * 1000000}

\* ------------------------------------------------------------------ bounds

\* Jobs the intake paths may create where workers run them (Spec).
MaxJobs == 1

\* Jobs the intake paths may create where only intake and the control plane act
\* (SpecIntake).
MaxIntakeJobs == 2

\* Control-plane requests (approve, reject, kill-switch, resume) plus messages the
\* queue delivers a second time, in one run of the model.
MaxControlOps == 3

\* Worker processes where the whole control plane acts (Spec).
MaxWorkers == 1

\* Worker processes that take messages of the same job at once (SpecRace).
MaxDedupeJobs == 3
SpendStep == 1
MaxRetryArg == 3
MaxIntervals == 3
MaxCallers == 2
MaxLockCalls == 2
MaxReasonLen == 4
MaxRaceWorkers == 2

\* ----------------------------------------------------- configuration

AllowedRepo == "acme/repo"

DisabledRepo == "acme/disabled"

UnlistedRepo == "evil/repo"

Repos == {AllowedRepo, DisabledRepo, UnlistedRepo}

IssueNumbers == {7, 42}

\* policy.yaml: repo_allowlist.
repo_allowlist == {AllowedRepo, DisabledRepo}

\* repos.yaml: the repo_profiles table after upsert_repo_profiles.
repo_profiles ==
    [r \in {AllowedRepo, DisabledRepo} |->
        [enabled |-> (r = AllowedRepo),
         default_base_branch |-> "develop",
         allowed_paths |-> <<>>,
         acceptance_commands |-> <<"pytest -q">>]]

\* Settings.disable_queue (default False): enqueue_job really enqueues.
disable_queue == FALSE

\* Deployments the model starts in: RUN_MODE, the policy's sensitive_paths and the
\* Settings.max_usd_per_day / max_usd_per_month defaults (40 and 900 USD).
ConfigInputs ==
    { [run_mode |-> m, sensitive_paths |-> s,
       max_usd_per_day |-> 40 * 1000000, max_usd_per_month |-> 900 * 1000000] :
        m \in {"fast", "release"}, s \in { <<"infra/**">>, <<"*.md">> } }

VARIABLES
    jobs,           \* jobs table: sequence of rows, job_id = index (creation order)
    events,         \* job_events rows per job, in insertion order
    approvals,      \* approvals rows per job
    audits,         \* policy_audit rows per job
    ledger,         \* cost_ledger rows per job (cost_usd of each row)
    incidents,      \* incidents rows
    queue,          \* pending queue messages per job (a bag of job ids)
    redelivered,    \* messages the queue has delivered a second time
    agents_flag,    \* value under the redis key "agents_enabled" (None: never set)
    recent,         \* job ids whose created_at lies within the last 2 minutes
    workers,        \* per worker: position in process_job and its session's job object
    pull_requests,  \* draft pull requests requested on the forge, per job
    config,         \* the deployment: run mode and policy
    job_limit,      \* jobs the intake paths may create in this run
    locks,          \* redis lock keys that are held
    call            \* a library function under test: its arguments and its result

vars == <<jobs, events, approvals, audits, ledger, incidents, queue, redelivered,
          agents_flag, recent, workers, pull_requests, config, job_limit, locks, call>>

JobIds == 1..Len(jobs)

Workers == DOMAIN workers

\* ------------------------------------------------------------- policy.py

\* fnmatch.fnmatch over the paths and globs of the model ('*' also matches '/').
fnmatch(path, pat) ==
    CASE pat = "**" -> TRUE
      [] pat = "*.md" -> path \in {"README.md", "docs/agent-runs/job.md"}
      [] pat = "docs/**" -> path = "docs/agent-runs/job.md"
      [] OTHER -> FALSE

Range(s) == { s[i] : i \in 1..Len(s) }

repo_allowed(repo) == repo \in repo_allowlist

\* A policy under which no path is sensitive.
requires_sensitive_approval_never(changed_paths) == FALSE

requires_sensitive_approval(changed_paths) ==
    \E changed \in Range(changed_paths) :
        \E pat \in Range(config.sensitive_paths) : fnmatch(changed, pat)

allowed_path_violation(changed_paths, allowed_paths) ==
    SelectSeq(changed_paths,
              LAMBDA changed : ~ \E pat \in Range(allowed_paths) : fnmatch(changed, pat))

\* blocked_commands.exact of the policy.
blocked_exact == {"rm -rf /"}

is_blocked_command(command) == command \in blocked_exact

\* URL_PATTERN.findall(command) for the commands of the model.
command_urls(command) ==
    CASE command = "curl https://malicious.example.net/x" -> <<"https://malicious.example.net/x">>
      [] command = "curl https://api.github.com/x" -> <<"https://api.github.com/x">>
      [] command = "curl https://api.github.com/x https://malicious.example.net/x" ->
            <<"https://api.github.com/x", "https://malicious.example.net/x">>
      [] OTHER -> <<>>

domain_allowlist == {"api.github.com"}

url_host(url) ==
    CASE url = "https://malicious.example.net/x" -> "malicious.example.net"
      [] url = "https://api.github.com/x" -> "api.github.com"
      [] OTHER -> None

domain_allowed(url) == url_host(url) # None /\ url_host(url) \in domain_allowlist

\* ---------------------------------------------------------- queueing.py

\* A worker that never consults the flag.
agents_enabled_ignoring_flag == TRUE

agents_enabled == agents_flag = None \/ agents_flag = "true"

\* enqueue_job: one more message for job_id on the queue `q`.
enqueue_job(q, job_id) ==
    IF disable_queue THEN q
    ELSE IF job_id > Len(q) THEN Append(q, 1)
    ELSE [q EXCEPT ![job_id] = @ + 1]

\* -------------------------------------------------------- repository.py

\* has_approval over the rows `rows` of one job.
has_approval_in(rows, action) ==
    \E i \in 1..Len(rows) : rows[i].action = action /\ rows[i].approved

has_approval(job_id, action) == has_approval_in(approvals[job_id], action)

\* The commit of a session whose job object went from `loc` to `new`: the UPDATE
\* carries only the columns that changed in the session; `row` is the stored row.
commit(row, loc, new) ==
    [row EXCEPT
        !.status = IF new.status # loc.status THEN new.status ELSE @,
        !.current_stage = IF new.current_stage # loc.current_stage THEN new.current_stage ELSE @,
        !.failure_reason = IF new.failure_reason # loc.failure_reason THEN new.failure_reason ELSE @,
        !.pr_url = IF new.pr_url # loc.pr_url THEN new.pr_url ELSE @,
        !.cost_usd = IF new.cost_usd # loc.cost_usd THEN new.cost_usd ELSE @]

\* The attribute assignments of update_job_status on the session's job object.
staged_status(loc, status, stage, reason, pr_url) ==
    [loc EXCEPT
        !.status = status,
        !.current_stage = IF stage # None THEN stage ELSE @,
        !.failure_reason = IF reason # None /\ reason # "" THEN reason ELSE @,
        !.pr_url = IF pr_url # None THEN pr_url ELSE @]

\* A session at work on one job: S.row is the stored job row, S.loc the session's
\* job object, S.ev / S.led / S.aud the job's events, ledger and audit rows.
update_job_status(S, status, stage, reason, pr_url) ==
    LET new == staged_status(S.loc, status, stage, reason, pr_url)
    IN  [S EXCEPT !.row = commit(S.row, S.loc, new), !.loc = new]

add_job_event(S, stage, event_type) ==
    [S EXCEPT !.ev = Append(@, [stage |-> stage, event_type |-> event_type])]

add_policy_audit(S, decision, rule_id) ==
    [S EXCEPT !.aud = Append(@, [decision |-> decision, rule_id |-> rule_id])]

add_cost(S, cost_usd) ==
    LET new == [S.loc EXCEPT !.cost_usd = @ + cost_usd]
    IN  [S EXCEPT !.led = Append(@, cost_usd),
                  !.row = commit(S.row, S.loc, new),
                  !.loc = new]

RECURSIVE SeqSum(_)
SeqSum(s) == IF s = <<>> THEN 0 ELSE s[1] + SeqSum(Tail(s))

\* daily_cost / monthly_cost as seen by a session at work on job_id: every ledger
\* row of the model is of today.
daily_cost(S, job_id) ==
    LET others == [k \in JobIds |-> IF k = job_id THEN 0 ELSE SeqSum(ledger[k])]
    IN  SeqSum([k \in 1..Len(jobs) |-> others[k]]) + SeqSum(S.led)

monthly_cost(S, job_id) == daily_cost(S, job_id)

\* latest_job_for_issue: the newest job of (repo, issue_number), 0 if none.
latest_job_for_issue(repo, issue_number) ==
    LET same == { k \in JobIds : jobs[k].repo = repo /\ jobs[k].issue_number = issue_number }
    IN  IF same = {} THEN 0 ELSE CHOOSE k \in same : \A o \in same : o <= k

\* The row Repository.create_job stores for a JobSpecV1.
new_job(repo, issue_number, base_branch, risk_class, allowed_paths, acceptance_commands, caps_max_usd) ==
    [repo |-> repo,
     issue_number |-> issue_number,
     base_branch |-> base_branch,
     risk_class |-> risk_class,
     status |-> "queued",
     allowed_paths |-> allowed_paths,
     acceptance_commands |-> acceptance_commands,
     caps_max_usd |-> caps_max_usd,
     current_stage |-> None,
     failure_reason |-> None,
     pr_url |-> None,
     cost_usd |-> 0]

\* ---------------------------------------------------------------- state

IdleWorker == [pc |-> "idle", job_id |-> 0, job |-> new_job(None, 0, None, None, <<>>, <<>>, 0)]

InitStore ==
    /\ jobs = <<>>
    /\ events = <<>>
    /\ approvals = <<>>
    /\ audits = <<>>
    /\ ledger = <<>>
    /\ incidents = <<>>
    /\ queue = <<>>
    /\ redelivered = 0
    /\ agents_flag = None
    /\ recent = {}
    /\ pull_requests = <<>>
    /\ locks = {}
    /\ call = None

Init ==
    /\ InitStore
    /\ config \in { c \in ConfigInputs : c.run_mode = "fast" }
    /\ job_limit = MaxJobs
    /\ workers = [w \in 1..MaxWorkers |-> IdleWorker]

InitIntake ==
    /\ InitStore
    /\ config \in ConfigInputs
    /\ job_limit = MaxIntakeJobs
    /\ workers = <<>>

InitRace ==
    /\ InitStore
    /\ config \in { c \in ConfigInputs : c.run_mode = "fast" /\ c.sensitive_paths = <<"infra/**">> }
    /\ job_limit = MaxJobs
    /\ workers = [w \in 1..MaxRaceWorkers |-> IdleWorker]

InitDedupe ==
    /\ InitStore
    /\ config \in { c \in ConfigInputs : c.run_mode = "fast" /\ c.sensitive_paths = <<"infra/**">> }
    /\ job_limit = MaxDedupeJobs
    /\ workers = <<>>

\* Control-plane requests and redeliveries so far (each leaves a row or a count).
RECURSIVE SeqSumLen(_)
SeqSumLen(ss) == IF ss = <<>> THEN 0 ELSE Len(ss[1]) + SeqSumLen(Tail(ss))

rejected_count(job_id) ==
    Cardinality({ i \in 1..Len(events[job_id]) : events[job_id][i].event_type = "rejected" })

ControlOps ==
    SeqSumLen(approvals) + SeqSum([k \in 1..Len(jobs) |-> rejected_count(k)])
        + Len(incidents) + redelivered

\* ------------------------------------------------- orchestrator.py: intake

\* A create_job that stores the job row without its created event.
persist_and_enqueue_without_event(row) ==
    /\ Len(jobs) < job_limit
    /\ jobs' = Append(jobs, row)
    /\ events' = Append(events, <<>>)
    /\ approvals' = Append(approvals, <<>>)
    /\ audits' = Append(audits, <<>>)
    /\ ledger' = Append(ledger, <<>>)
    /\ pull_requests' = Append(pull_requests, 0)
    /\ queue' = enqueue_job(Append(queue, 0), Len(jobs) + 1)
    /\ recent' = recent \cup {Len(jobs) + 1}
    /\ UNCHANGED <<incidents, redelivered, agents_flag, workers, config, job_limit, locks, call>>

\* Repository.create_job followed by enqueue_job, as every intake path does.
persist_and_enqueue(row) ==
    /\ Len(jobs) < job_limit
    /\ jobs' = Append(jobs, row)
    /\ events' = Append(events, << [stage |-> "enqueue", event_type |-> "created"] >>)
    /\ approvals' = Append(approvals, <<>>)
    /\ audits' = Append(audits, <<>>)
    /\ ledger' = Append(ledger, <<>>)
    /\ pull_requests' = Append(pull_requests, 0)
    /\ queue' = enqueue_job(Append(queue, 0), Len(jobs) + 1)
    /\ recent' = recent \cup {Len(jobs) + 1}
    /\ UNCHANGED <<incidents, redelivered, agents_flag, workers, config, job_limit, locks, call>>

\* `x in list` of a Python list.
contains(list, x) == \E i \in 1..Len(list) : list[i] = x

\* str.lower() of a label name.
lower(name) ==
    CASE name = "Infra" -> "infra"
      [] name = "DESTRUCTIVE" -> "destructive"
      [] name = "Agent-Ready" -> "agent-ready"
      [] OTHER -> name

\* The lower-cased names of the issue's labels, in the order of the payload.
label_names(req) == [i \in 1..Len(req.labels) |-> lower(req.labels[i])]

\* A risk detection that goes by the first label that names a risk.
RECURSIVE detect_risk_first_label(_)
detect_risk_first_label(labels) ==
    IF labels = <<>> THEN "code"
    ELSE IF Head(labels) \in {"destructive", "secrets", "infra"} THEN Head(labels)
    ELSE IF Head(labels) \in {"deps", "dependencies", "security"} THEN "deps"
    ELSE detect_risk_first_label(Tail(labels))

detect_risk(labels) ==
    IF contains(labels, "destructive") THEN "destructive"
    ELSE IF contains(labels, "secrets") THEN "secrets"
    ELSE IF contains(labels, "infra") THEN "infra"
    ELSE IF contains(labels, "deps") \/ contains(labels, "dependencies")
            \/ contains(labels, "security") THEN "deps"
    ELSE "code"

profile_enabled(repo) == repo \in DOMAIN repo_profiles /\ repo_profiles[repo].enabled

\* The duplicate-suppression check of github_webhook on the latest job of the issue.
webhook_duplicate(repo, issue_number) ==
    LET latest == latest_job_for_issue(repo, issue_number)
    IN  /\ latest # 0
        /\ \/ jobs[latest].status \in {"queued", "running", "awaiting_approval"}
           \/ latest \in recent

\* A webhook handler that does not look at the kill switch.
webhook_accepts_while_killed(req) ==
    LET is_agent_ready ==
            IF req.action = "labeled" THEN lower(req.labeled) = "agent-ready"
            ELSE contains(label_names(req), "agent-ready")
    IN  /\ req.event = "issues"
        /\ is_agent_ready
        /\ repo_allowed(req.repo)
        /\ req.issue_number # 0
        /\ profile_enabled(req.repo)
        /\ ~ webhook_duplicate(req.repo, req.issue_number)

webhook_accepts(req) ==
    LET is_agent_ready ==
            IF req.action = "labeled" THEN lower(req.labeled) = "agent-ready"
            ELSE contains(label_names(req), "agent-ready")
    IN  /\ agents_enabled
        /\ req.event = "issues"
        /\ is_agent_ready
        /\ repo_allowed(req.repo)
        /\ req.issue_number # 0
        /\ profile_enabled(req.repo)
        /\ ~ webhook_duplicate(req.repo, req.issue_number)

\* The WebhookResult github_webhook returns for a delivery whose signature has
\* been verified: the message is its text followed by what is formatted into it.
webhook_result(req) ==
    LET is_agent_ready ==
            IF req.action = "labeled" THEN lower(req.labeled) = "agent-ready"
            ELSE contains(label_names(req), "agent-ready")
        latest == latest_job_for_issue(req.repo, req.issue_number)
        refused(message) == [accepted |-> FALSE, message |-> message, job_id |-> None]
    IN  IF ~ agents_enabled THEN refused(<<"Kill switch active.">>)
        ELSE IF req.event # "issues" THEN refused(<<"Event ignored.">>)
        ELSE IF ~ is_agent_ready THEN refused(<<"Missing agent-ready label.">>)
        ELSE IF ~ repo_allowed(req.repo) THEN refused(<<"Repo not allowlisted: ", req.repo>>)
        ELSE IF req.issue_number = 0 THEN refused(<<"Missing issue number.">>)
        ELSE IF ~ profile_enabled(req.repo) THEN refused(<<"Repo disabled: ", req.repo>>)
        ELSE IF latest # 0 /\ jobs[latest].status \in {"queued", "running", "awaiting_approval"}
        THEN refused(<<"Job already in progress: ", latest>>)
        ELSE IF latest # 0 /\ latest \in recent
        THEN refused(<<"Duplicate webhook ignored: ", latest>>)
        ELSE [accepted |-> TRUE, message |-> <<"Job queued.">>, job_id |-> <<Len(jobs) + 1>>]

github_webhook(req) ==
    IF webhook_accepts(req)
    THEN persist_and_enqueue(
            new_job(req.repo, req.issue_number, repo_profiles[req.repo].default_base_branch,
                    detect_risk(label_names(req)),
                    repo_profiles[req.repo].allowed_paths,
                    repo_profiles[req.repo].acceptance_commands,
                    DefaultCapsMaxUsd))
    ELSE UNCHANGED vars

\* base_branch of a parsed JobCreateRequest or TextIntakeRequest: the field's
\* default when the request does not give it (None).
request_base_branch(req) ==
    IF req.base_branch = None THEN DefaultRequestBaseBranch ELSE req.base_branch

\* POST /api/v1/jobs; req.caps is <<>> when the request carries no caps, and
\* <<max_usd>> when it does.
create_job(req) ==
    IF repo_allowed(req.repo) /\ profile_enabled(req.repo)
    THEN persist_and_enqueue(
            new_job(req.repo, req.issue_number,
                    IF request_base_branch(req) # "" THEN request_base_branch(req)
                    ELSE repo_profiles[req.repo].default_base_branch,
                    req.risk_class,
                    IF req.allowed_paths # <<>> THEN req.allowed_paths
                    ELSE repo_profiles[req.repo].allowed_paths,
                    IF req.acceptance_commands # <<>> THEN req.acceptance_commands
                    ELSE repo_profiles[req.repo].acceptance_commands,
                    IF req.caps # <<>> THEN req.caps[1] ELSE DefaultCapsMaxUsd))
    ELSE UNCHANGED vars

\* POST /api/v1/intake/text; issue_number is the synthetic local number (fast mode)
\* or the number of the issue the forge created (release mode).
intake_text(req, issue_number) ==
    IF repo_allowed(req.repo) /\ profile_enabled(req.repo)
    THEN persist_and_enqueue(
            new_job(req.repo, issue_number,
                    IF request_base_branch(req) # "" THEN request_base_branch(req)
                    ELSE repo_profiles[req.repo].default_base_branch,
                    req.risk_class,
                    IF req.allowed_paths # <<>> THEN req.allowed_paths
                    ELSE repo_profiles[req.repo].allowed_paths,
                    IF req.acceptance_commands # <<>> THEN req.acceptance_commands
                    ELSE repo_profiles[req.repo].acceptance_commands,
                    IF req.caps # <<>> THEN req.caps[1] ELSE DefaultCapsMaxUsd))
    ELSE UNCHANGED vars

\* Time passes: the oldest job still inside the 2-minute window leaves it.
WindowExpires ==
    /\ recent # {}
    /\ recent' = recent \ { CHOOSE k \in recent : \A o \in recent : k <= o }
    /\ UNCHANGED <<jobs, events, approvals, audits, ledger, incidents, queue, redelivered,
                   agents_flag, workers, pull_requests, config, job_limit, locks, call>>

\* ------------------------------------------ orchestrator.py: control plane

\* A request's own session: its job object is the row it has just read.
request_session(job_id) ==
    [row |-> jobs[job_id], loc |-> jobs[job_id], ev |-> events[job_id],
     led |-> ledger[job_id], aud |-> audits[job_id]]

\* An approve that re-enqueues whatever the job's status.
approve_job_always_enqueues(job_id, action) ==
    /\ job_id \in JobIds
    /\ ControlOps < MaxControlOps
    /\ LET S0 == request_session(job_id)
           S1 == add_job_event(S0, "approval", "approved")
           S2 == update_job_status(S1, "queued", "approval", None, None)
       IN  /\ approvals' = [approvals EXCEPT ![job_id] =
                                Append(@, [action |-> action, approved |-> TRUE])]
           /\ events' = [events EXCEPT ![job_id] = S2.ev]
           /\ jobs' = [jobs EXCEPT ![job_id] = S2.row]
           /\ queue' = enqueue_job(queue, job_id)
    /\ UNCHANGED <<audits, ledger, incidents, redelivered, agents_flag, recent, workers,
                   pull_requests, config, job_limit, locks, call>>

approve_job(job_id, action) ==
    /\ job_id \in JobIds
    /\ ControlOps < MaxControlOps
    /\ LET S0 == request_session(job_id)
           S1 == add_job_event(S0, "approval", "approved")
           waiting == S0.loc.status = "awaiting_approval"
           S2 == IF waiting THEN update_job_status(S1, "queued", "approval", None, None) ELSE S1
       IN  /\ approvals' = [approvals EXCEPT ![job_id] =
                                Append(@, [action |-> action, approved |-> TRUE])]
           /\ events' = [events EXCEPT ![job_id] = S2.ev]
           /\ jobs' = [jobs EXCEPT ![job_id] = S2.row]
           /\ queue' = IF waiting THEN enqueue_job(queue, job_id) ELSE queue
    /\ UNCHANGED <<audits, ledger, incidents, redelivered, agents_flag, recent, workers,
                   pull_requests, config, job_limit, locks, call>>

reject_job(job_id, reason) ==
    /\ job_id \in JobIds
    /\ ControlOps < MaxControlOps
    /\ LET S0 == request_session(job_id)
           S1 == update_job_status(S0, "rejected", "approval", reason, None)
           S2 == add_job_event(S1, "approval", "rejected")
       IN  /\ jobs' = [jobs EXCEPT ![job_id] = S2.row]
           /\ events' = [events EXCEPT ![job_id] = S2.ev]
    /\ UNCHANGED <<approvals, audits, ledger, incidents, queue, redelivered, agents_flag,
                   recent, workers, pull_requests, config, job_limit, locks, call>>

\* A switch that, once off, stays off.
set_kill_switch_sticky(enabled) ==
    agents_flag' = IF enabled /\ agents_flag # "false" THEN "true" ELSE "false"

set_kill_switch(enabled) == agents_flag' = IF enabled THEN "true" ELSE "false"

kill_switch ==
    /\ ControlOps < MaxControlOps
    /\ set_kill_switch(FALSE)
    /\ incidents' = Append(incidents, [severity |-> "warning", status |-> "open"])
    /\ UNCHANGED <<jobs, events, approvals, audits, ledger, queue, redelivered, recent,
                   workers, pull_requests, config, job_limit, locks, call>>

resume ==
    /\ ControlOps < MaxControlOps
    /\ set_kill_switch(TRUE)
    /\ incidents' = Append(incidents, [severity |-> "info", status |-> "closed"])
    /\ UNCHANGED <<jobs, events, approvals, audits, ledger, queue, redelivered, recent,
                   workers, pull_requests, config, job_limit, locks, call>>

\* ------------------------------------------------------------ the queue

\* At-least-once delivery: the queue hands out the message of a job once more.
Redeliver(job_id) ==
    /\ job_id \in JobIds
    /\ ControlOps < MaxControlOps
    /\ redelivered' = redelivered + 1
    /\ queue' = enqueue_job(queue, job_id)
    /\ UNCHANGED <<jobs, events, approvals, audits, ledger, incidents, agents_flag, recent,
                   workers, pull_requests, config, job_limit, locks, call>>

\* ------------------------------------------------ job_runner.py: process_job

\* The session of worker w: the stored row of its job and its own job object.
worker_session(w) ==
    LET j == workers[w].job_id
    IN  [row |-> jobs[j], loc |-> workers[w].job, ev |-> events[j],
         led |-> ledger[j], aud |-> audits[j]]

\* A worker's step on job j ends: what its session committed is stored, and the
\* worker moves to position pc ("idle": process_job has returned).
Store(w, j, S, pc) ==
    /\ jobs' = [jobs EXCEPT ![j] = S.row]
    /\ events' = [events EXCEPT ![j] = S.ev]
    /\ ledger' = [ledger EXCEPT ![j] = S.led]
    /\ audits' = [audits EXCEPT ![j] = S.aud]
    /\ workers' = [workers EXCEPT ![w] =
                      IF pc = "idle" THEN IdleWorker
                      ELSE [pc |-> pc, job_id |-> j, job |-> S.loc]]

\* A runner that looks at the kill switch again at the end of every stage.
Continue_checks_switch(w, S, next_stage) ==
    IF ~ agents_enabled
    THEN Store(w, workers[w].job_id,
               add_job_event(
                   update_job_status(S, "failed", "dispatch", "KILL_SWITCH_ACTIVE", None),
                   "dispatch", "failed"),
               "idle")
    ELSE Store(w, workers[w].job_id, S, IF S.loc.status = "running" THEN next_stage ELSE "idle")

\* A process_job that raises the handled error again after recording it, so that
\* the queue sees the call fail.
Continue_reraises(w, S, next_stage) ==
    Store(w, workers[w].job_id, S,
          IF S.loc.status = "running" THEN next_stage
          ELSE IF S.loc.status = "failed" THEN "crashed" ELSE "idle")

\* The step of a running job ends: on to next_stage unless the session's job
\* object has left "running" (the except handler ran, or the job waits).
Continue(w, S, next_stage) ==
    Store(w, workers[w].job_id, S, IF S.loc.status = "running" THEN next_stage ELSE "idle")

\* A gate that any approved action opens.
require_approval_any_action(job_id, risk_class) ==
    IF risk_class \in {"infra", "secrets", "destructive"}
    THEN \E a \in ApprovalAction : has_approval(job_id, a)
    ELSE TRUE

require_approval(job_id, risk_class) ==
    IF risk_class = "infra" THEN has_approval(job_id, "infra")
    ELSE IF risk_class = "secrets" THEN has_approval(job_id, "secrets")
    ELSE IF risk_class = "destructive" THEN has_approval(job_id, "destructive")
    ELSE TRUE

\* _check_spend_caps on the session's job object: the code of the cap exceeded, or "ok".
\* A spend governor whose comparisons include the cap.
spend_caps_verdict_inclusive(found, job, daily, monthly) ==
    IF ~ found THEN "JOB_NOT_FOUND"
    ELSE IF daily >= config.max_usd_per_day THEN "CAP_DAILY_BUDGET_EXCEEDED"
    ELSE IF monthly >= config.max_usd_per_month THEN "CAP_MONTHLY_BUDGET_EXCEEDED"
    ELSE IF job.cost_usd >= job.caps_max_usd THEN "CAP_COST_EXCEEDED"
    ELSE "ok"

\* _check_spend_caps on a job object (found: the job exists) and the ledger sums
\* of today and of this month: the text of the error it raises, "ok" if none.
spend_caps_verdict(found, job, daily, monthly) ==
    IF ~ found THEN "JOB_NOT_FOUND"
    ELSE IF daily > config.max_usd_per_day THEN "CAP_DAILY_BUDGET_EXCEEDED"
    ELSE IF monthly > config.max_usd_per_month THEN "CAP_MONTHLY_BUDGET_EXCEEDED"
    ELSE IF job.cost_usd > job.caps_max_usd THEN "CAP_COST_EXCEEDED"
    ELSE "ok"

check_spend_caps(S, job_id) ==
    spend_caps_verdict(TRUE, S.loc, daily_cost(S, job_id), monthly_cost(S, job_id))

\* An except handler that records the failure event but leaves the status as
\* the stage left it.
handle_exception_keeps_status(S, message) ==
    IF S.loc.status = "awaiting_approval" THEN S
    ELSE add_job_event(S, IF S.loc.current_stage # None THEN S.loc.current_stage ELSE "unknown",
                       "failed")

\* A handler that fails the job whatever its status.
handle_exception_always_fails(S, message) ==
    add_job_event(
        update_job_status(S, "failed", S.loc.current_stage, message, None),
        IF S.loc.current_stage # None THEN S.loc.current_stage ELSE "unknown",
        "failed")

\* The except handler of process_job, for an error raised with text `message`.
handle_exception(S, message) ==
    IF S.loc.status = "awaiting_approval" THEN S
    ELSE add_job_event(
            update_job_status(S, "failed", S.loc.current_stage, message, None),
            IF S.loc.current_stage # None THEN S.loc.current_stage ELSE "unknown",
            "failed")

\* A spend governor that finds the job's cap exceeded after every stage.
checked_boundary_cap_exceeded(S, job_id, next_stage) ==
    handle_exception(S, "CAP_COST_EXCEEDED")

\* The spend-governor check after a stage, then the move to the next stage.
checked_boundary(S, job_id, next_stage) ==
    LET verdict == check_spend_caps(S, job_id)
    IN  IF verdict = "ok"
        THEN update_job_status(S, "running", next_stage, None, None)
        ELSE handle_exception(S, verdict)

\* The move to the next stage after a stage with no spend check.
plain_boundary(S, next_stage) ==
    IF S.loc.status = "running"
    THEN update_job_status(S, "running", next_stage, None, None)
    ELSE S

\* A worker takes a queue message, loads the job into its session, and checks the
\* kill switch, the loaded status and the approval of the job's risk class.
dispatch(w, job_id) ==
    /\ workers[w].pc = "idle"
    /\ job_id \in JobIds
    /\ queue[job_id] > 0
    /\ queue' = [queue EXCEPT ![job_id] = @ - 1]
    /\ LET S == request_session(job_id)
       IN  IF ~ agents_enabled
           THEN Store(w, job_id,
                      add_job_event(
                          update_job_status(S, "failed", "dispatch", "KILL_SWITCH_ACTIVE", None),
                          "dispatch", "failed"),
                      "idle")
           ELSE IF S.loc.status \in {"completed", "rejected"}
           THEN Store(w, job_id, S, "idle")
           ELSE IF ~ require_approval(job_id, S.loc.risk_class)
           THEN Store(w, job_id, S, "await_approval")
           ELSE Store(w, job_id, S, "start")
    /\ UNCHANGED <<approvals, incidents, redelivered, agents_flag, recent,
                   pull_requests, config, job_limit, locks, call>>

\* A gate that lets the job run although it found no approval.
await_approval_runs(w) ==
    /\ workers[w].pc = "await_approval"
    /\ Store(w, workers[w].job_id,
             update_job_status(worker_session(w), "running", "triage", None, None),
             "triage")
    /\ UNCHANGED <<approvals, incidents, queue, redelivered, agents_flag, recent,
                   pull_requests, config, job_limit, locks, call>>

\* The gate found no approval: awaiting_approval, approval/waiting, return.
await_approval(w) ==
    /\ workers[w].pc = "await_approval"
    /\ Store(w, workers[w].job_id,
             add_job_event(
                 update_job_status(worker_session(w), "awaiting_approval", "approval", None, None),
                 "approval", "waiting"),
             "idle")
    /\ UNCHANGED <<approvals, incidents, queue, redelivered, agents_flag, recent,
                   pull_requests, config, job_limit, locks, call>>

\* running/triage; in release mode the issue is then fetched from the forge.
start_running(w, issue_ok) ==
    /\ workers[w].pc = "start"
    /\ LET S == update_job_status(worker_session(w), "running", "triage", None, None)
       IN  Continue(w, IF issue_ok THEN S ELSE handle_exception(S, "GITHUB_GET_ISSUE_FAILED"),
                    "triage")
    /\ UNCHANGED <<approvals, incidents, queue, redelivered, agents_flag, recent,
                   pull_requests, config, job_limit, locks, call>>

\* The completion call may fail before any cost is recorded; otherwise the cost
\* is added and the stage's completed event written.
triage_stage(w, cost_usd, llm_ok) ==
    /\ workers[w].pc = "triage"
    /\ LET S == worker_session(w)
       IN  Continue(w,
                    IF llm_ok
                    THEN checked_boundary(
                            add_job_event(add_cost(S, cost_usd), "triage", "completed"),
                            workers[w].job_id, "plan")
                    ELSE handle_exception(S, "LLM_REQUEST_FAILED"),
                    "plan")
    /\ UNCHANGED <<approvals, incidents, queue, redelivered, agents_flag, recent,
                   pull_requests, config, job_limit, locks, call>>

plan_stage(w, cost_usd, llm_ok) ==
    /\ workers[w].pc = "plan"
    /\ LET S == worker_session(w)
       IN  Continue(w,
                    IF llm_ok
                    THEN checked_boundary(
                            add_job_event(add_cost(S, cost_usd), "plan", "completed"),
                            workers[w].job_id, "execute")
                    ELSE handle_exception(S, "LLM_REQUEST_FAILED"),
                    "execute")
    /\ UNCHANGED <<approvals, incidents, queue, redelivered, agents_flag, recent,
                   pull_requests, config, job_limit, locks, call>>

\* The paths the execute stage changes.
changed_paths == IF config.run_mode = "fast" THEN <<"README.md">> ELSE <<"docs/agent-runs/job.md">>

\* An execute stage that does not look at the job's allowed paths.
execute_checks_any_path(S, job_id) ==
    IF requires_sensitive_approval(changed_paths) /\ ~ has_approval(job_id, "infra")
    THEN handle_exception(
            add_job_event(
                update_job_status(S, "awaiting_approval", "execute", None, None),
                "execute", "waiting"),
            "SENSITIVE_PATH_APPROVAL_REQUIRED")
    ELSE add_job_event(add_policy_audit(S, "allow", "allowed_paths"), "execute", "completed")

\* The policy checks of execute_stage on the changed paths, and its result.
execute_checks(S, job_id) ==
    LET allowed == IF S.loc.allowed_paths # <<>> THEN S.loc.allowed_paths ELSE <<"**">>
    IN  IF allowed_path_violation(changed_paths, allowed) # <<>>
        THEN handle_exception(add_policy_audit(S, "deny", "allowed_paths"),
                              "ALLOWED_PATHS_VIOLATION")
        ELSE IF requires_sensitive_approval(changed_paths) /\ ~ has_approval(job_id, "infra")
        THEN handle_exception(
                add_job_event(
                    update_job_status(S, "awaiting_approval", "execute", None, None),
                    "execute", "waiting"),
                "SENSITIVE_PATH_APPROVAL_REQUIRED")
        ELSE add_job_event(add_policy_audit(S, "allow", "allowed_paths"), "execute", "completed")

\* outcome: "ok", or the error of the release-mode git and completion steps.
execute_stage(w, cost_usd, outcome) ==
    /\ workers[w].pc = "execute"
    /\ LET S == worker_session(w)
           charged == IF config.run_mode = "fast" THEN S ELSE add_cost(S, cost_usd)
       IN  Continue(w,
                    IF outcome = "GIT_CLONE_FAILED"
                    THEN handle_exception(S, outcome)
                    ELSE IF outcome = "SECRET_PATTERN_DETECTED_IN_PATCH"
                    THEN handle_exception(charged, outcome)
                    ELSE plain_boundary(execute_checks(charged, workers[w].job_id), "test"),
                    "test")
    /\ UNCHANGED <<approvals, incidents, queue, redelivered, agents_flag, recent,
                   pull_requests, config, job_limit, locks, call>>

\* The loop of test_stage over the acceptance commands from the i-th on; exits[i]
\* is the exit code of the i-th command if it runs. The result is the commands
\* handed to _run_command so far, and the policy audit and the error the loop
\* ends with (None: it ran to its end).
RECURSIVE acceptance_loop_unchecked(_, _, _, _)
acceptance_loop_unchecked(commands, exits, i, executed) ==
    IF i > Len(commands) THEN [executed |-> executed, audit |-> None, error |-> None]
    ELSE IF exits[i] # 0
    THEN [executed |-> Append(executed, commands[i]), audit |-> None,
          error |-> "ACCEPTANCE_COMMAND_FAILED: " \o commands[i]]
    ELSE acceptance_loop_unchecked(commands, exits, i + 1, Append(executed, commands[i]))

RECURSIVE acceptance_loop(_, _, _, _)
acceptance_loop(commands, exits, i, executed) ==
    IF i > Len(commands) THEN [executed |-> executed, audit |-> None, error |-> None]
    ELSE LET command == commands[i]
             bad_urls == SelectSeq(command_urls(command), LAMBDA url : ~ domain_allowed(url))
         IN  IF is_blocked_command(command)
             THEN [executed |-> executed, audit |-> "blocked_command",
                   error |-> "BLOCKED_COMMAND: " \o command]
             ELSE IF bad_urls # <<>>
             THEN [executed |-> executed, audit |-> "domain_allowlist",
                   error |-> "DOMAIN_NOT_ALLOWLISTED: " \o Head(bad_urls)]
             ELSE IF exits[i] # 0
             THEN [executed |-> Append(executed, command), audit |-> None,
                   error |-> "ACCEPTANCE_COMMAND_FAILED: " \o command]
             ELSE acceptance_loop(commands, exits, i + 1, Append(executed, command))

\* test_stage inside _run_stage: the loop, then the completed event or the
\* handler of the error the loop raised.
run_commands(S, commands, exits) ==
    LET loop == acceptance_loop(commands, exits, 1, <<>>)
    IN  IF loop.error = None THEN add_job_event(S, "test", "completed")
        ELSE handle_exception(
                IF loop.audit # None THEN add_policy_audit(S, "deny", loop.audit) ELSE S,
                loop.error)

test_stage(w, exit_ok) ==
    /\ workers[w].pc = "test"
    /\ Continue(w,
                plain_boundary(
                    run_commands(worker_session(w), workers[w].job.acceptance_commands,
                                 [i \in 1..Len(workers[w].job.acceptance_commands) |->
                                        IF exit_ok THEN 0 ELSE 1]),
                    "review"),
                "review")
    /\ UNCHANGED <<approvals, incidents, queue, redelivered, agents_flag, recent,
                   pull_requests, config, job_limit, locks, call>>

\* outcome: "ok", "LLM_REQUEST_FAILED" or "SECRET_PATTERN_DETECTED_IN_REVIEW".
review_stage(w, cost_usd, outcome) ==
    /\ workers[w].pc = "review"
    /\ LET S == worker_session(w)
       IN  Continue(w,
                    IF outcome = "LLM_REQUEST_FAILED"
                    THEN handle_exception(S, outcome)
                    ELSE IF outcome = "SECRET_PATTERN_DETECTED_IN_REVIEW"
                    THEN handle_exception(add_cost(S, cost_usd), outcome)
                    ELSE checked_boundary(
                            add_job_event(add_cost(S, cost_usd), "review", "completed"),
                            workers[w].job_id, "pr"),
                    "pr")
    /\ UNCHANGED <<approvals, incidents, queue, redelivered, agents_flag, recent,
                   pull_requests, config, job_limit, locks, call>>

\* outcome: "ok", "GIT_PUSH_FAILED" (before the pull request is requested) or
\* "GITHUB_CREATE_PR_FAILED" (the request itself fails).
pr_stage(w, outcome) ==
    /\ workers[w].pc = "pr"
    /\ LET S == worker_session(w)
           j == workers[w].job_id
           pr_url == IF config.run_mode = "fast" THEN None ELSE "https://forge/pull/1"
       IN  /\ Store(w, j,
                    IF outcome = "ok"
                    THEN update_job_status(add_job_event(S, "pr", "completed"),
                                           "completed", "pr", None, pr_url)
                    ELSE handle_exception(S, outcome),
                    "idle")
           /\ pull_requests' =
                 IF config.run_mode = "release" /\ outcome = "ok"
                 THEN [pull_requests EXCEPT ![j] = @ + 1]
                 ELSE pull_requests
    /\ UNCHANGED <<approvals, incidents, queue, redelivered, agents_flag, recent, config, job_limit, locks, call>>

\* ------------------------------------------------------ inputs and Next

\* Representative webhook deliveries: accepted ones of three risk classes, and one
\* for each reason to refuse.
WebhookBase ==
    [event |-> "issues", action |-> "opened", labeled |-> None,
     labels |-> <<"agent-ready">>, repo |-> AllowedRepo, issue_number |-> 7]

WebhookInputs ==
    { WebhookBase,
      [WebhookBase EXCEPT !.labels = <<"agent-ready", "infra", "destructive">>],
      [WebhookBase EXCEPT !.labels = <<"Agent-Ready", "security">>, !.issue_number = 42],
      [WebhookBase EXCEPT !.action = "labeled", !.labeled = "agent-ready", !.labels = <<"infra">>],
      [WebhookBase EXCEPT !.action = "labeled", !.labeled = "infra"],
      [WebhookBase EXCEPT !.event = "push"],
      [WebhookBase EXCEPT !.labels = <<"infra">>],
      [WebhookBase EXCEPT !.repo = UnlistedRepo],
      [WebhookBase EXCEPT !.repo = DisabledRepo],
      [WebhookBase EXCEPT !.issue_number = 0] }

\* The reason of a RejectRequest: any string, the empty one included.
RejectReasons == {"", "not wanted"}

CreateBase ==
    [repo |-> AllowedRepo, issue_number |-> 7, risk_class |-> "code",
     base_branch |-> None, allowed_paths |-> <<>>, acceptance_commands |-> <<>>,
     caps |-> <<>>]

CreateInputs ==
    { [CreateBase EXCEPT !.risk_class = k] : k \in RiskClass }
        \cup { [CreateBase EXCEPT !.repo = UnlistedRepo],
               [CreateBase EXCEPT !.repo = DisabledRepo] }

\* The issues the requests of a run are about: one where workers run the jobs.
Issues == IF workers # <<>> THEN {7} ELSE IssueNumbers

ModelCosts == IF config.run_mode = "fast" THEN {FastModeCost} ELSE ReleaseModeCosts

Outcomes(errors) == IF config.run_mode = "fast" THEN {"ok"} ELSE {"ok"} \cup errors

Intake ==
    \/ \E req \in WebhookInputs : req.issue_number \in Issues \cup {0} /\ github_webhook(req)
    \/ \E req \in CreateInputs : create_job(req)
    \/ \E req \in CreateInputs, n \in Issues : intake_text(req, n)

ControlPlane ==
    \/ \E j \in JobIds, a \in ApprovalAction : approve_job(j, a)
    \/ \E j \in JobIds, r \in RejectReasons : reject_job(j, r)
    \/ kill_switch
    \/ resume

Runner(w) ==
    \/ \E j \in JobIds : dispatch(w, j)
    \/ await_approval(w)
    \/ \E ok \in {o = "ok" : o \in Outcomes({"GITHUB_GET_ISSUE_FAILED"})} : start_running(w, ok)
    \/ \E c \in ModelCosts, ok \in {o = "ok" : o \in Outcomes({"LLM_REQUEST_FAILED"})} :
            triage_stage(w, c, ok)
    \/ \E c \in ModelCosts, ok \in {o = "ok" : o \in Outcomes({"LLM_REQUEST_FAILED"})} :
            plan_stage(w, c, ok)
    \/ \E c \in ModelCosts,
          o \in Outcomes({"GIT_CLONE_FAILED", "SECRET_PATTERN_DETECTED_IN_PATCH"}) :
            execute_stage(w, c, o)
    \/ \E ok \in {o = "ok" : o \in Outcomes({"ACCEPTANCE_COMMAND_FAILED"})} : test_stage(w, ok)
    \/ \E c \in ModelCosts,
          o \in Outcomes({"LLM_REQUEST_FAILED", "SECRET_PATTERN_DETECTED_IN_REVIEW"}) :
            review_stage(w, c, o)
    \/ \E o \in Outcomes({"GIT_PUSH_FAILED", "GITHUB_CREATE_PR_FAILED"}) : pr_stage(w, o)

Next ==
    \/ Intake
    \/ ControlPlane
    \/ \E j \in JobIds : Redeliver(j)
    \/ \E w \in Workers : Runner(w)

Spec == Init /\ [][Next]_vars

NextIntake ==
    \/ Intake
    \/ WindowExpires
    \/ \E j \in JobIds, r \in RejectReasons : reject_job(j, r)
    \/ kill_switch
    \/ resume

SpecIntake == InitIntake /\ [][NextIntake]_vars

\* Two workers, one job of risk class code or infra, approvals and redelivery.
NextRace ==
    \/ \E k \in {"code", "infra"} : create_job([CreateBase EXCEPT !.risk_class = k])
    \/ \E j \in JobIds : approve_job(j, "infra")
    \/ \E j \in JobIds : Redeliver(j)
    \/ \E w \in Workers : Runner(w)

SpecRace == InitRace /\ [][NextRace]_vars

\* One worker, every message delivered, no kill switch, no rejection, README.md
\* not sensitive: the simulated-mode run of a job and of its approval.
\* Intake of one issue through the webhook and through POST /api/v1/jobs, with
\* rejections and the passing of time.
NextDedupe ==
    \/ github_webhook(WebhookBase)
    \/ create_job(CreateBase)
    \/ \E j \in JobIds : reject_job(j, "not wanted")
    \/ WindowExpires

SpecDedupe == InitDedupe /\ [][NextDedupe]_vars

\* ------------------------------------------------ library functions on their own

\* The store of a run that only calls a library function.
EmptyStore ==
    /\ jobs = <<>>
    /\ events = <<>>
    /\ approvals = <<>>
    /\ audits = <<>>
    /\ ledger = <<>>
    /\ incidents = <<>>
    /\ queue = <<>>
    /\ redelivered = 0
    /\ agents_flag = None
    /\ recent = {}
    /\ pull_requests = <<>>
    /\ workers = <<>>
    /\ job_limit = 0

StoreUnchanged ==
    UNCHANGED <<jobs, events, approvals, audits, ledger, incidents, queue, redelivered,
                agents_flag, recent, workers, pull_requests, config, job_limit>>

\* Amounts at, just under and just over the cap `cap`.
Around(cap) == {cap - SpendStep, cap, cap + SpendStep}

\* Calls of _check_spend_caps: a job that exists or not, and ledger sums around the caps.
InitSpend ==
    /\ EmptyStore
    /\ locks = {}
    /\ config \in ConfigInputs
    /\ call \in
        { [fn |-> "check_spend_caps", found |-> found, job |-> job,
           daily |-> d, monthly |-> m, result |-> None] :
            found \in BOOLEAN,
            job \in { [cost_usd |-> c, caps_max_usd |-> DefaultCapsMaxUsd] :
                        c \in Around(DefaultCapsMaxUsd) },
            d \in Around(config.max_usd_per_day),
            m \in Around(config.max_usd_per_month) }

spend_check ==
    /\ call.result = None
    /\ call' = [call EXCEPT !.result = spend_caps_verdict(call.found, call.job, call.daily, call.monthly)]
    /\ UNCHANGED locks
    /\ StoreUnchanged

SpecSpend == InitSpend /\ [][spend_check]_vars

\* [value] * count
Repeat(value, count) == [i \in 1..count |-> value]

\* The intervals with a positive value, in order (max(1, v) of such a v is v).
sanitize(intervals) == SelectSeq(intervals, LAMBDA value : value > 0)

\* A normalisation that truncates but never pads.
normalize_retry_intervals_unpadded(max_retries, intervals) ==
    LET sanitized == IF sanitize(intervals) = <<>> THEN <<DefaultRetryInterval>>
                     ELSE sanitize(intervals)
    IN  IF max_retries <= 1 THEN sanitized[1]
        ELSE SubSeq(sanitized, 1, IF Len(sanitized) < max_retries THEN Len(sanitized)
                                  ELSE max_retries)

\* normalize_retry_intervals: an integer when max_retries <= 1, a list otherwise.
normalize_retry_intervals(max_retries, intervals) ==
    LET sanitized == IF sanitize(intervals) = <<>> THEN <<DefaultRetryInterval>>
                     ELSE sanitize(intervals)
        extended == IF Len(sanitized) < max_retries
                    THEN sanitized \o Repeat(sanitized[Len(sanitized)],
                                                  max_retries - Len(sanitized))
                    ELSE sanitized
    IN  IF max_retries <= 1 THEN sanitized[1]
        ELSE SubSeq(extended, 1, max_retries)

RECURSIVE SeqsUpTo(_, _)
SeqsUpTo(values, len) ==
    IF len = 0 THEN {<<>>}
    ELSE SeqsUpTo(values, len - 1)
            \cup { Append(s, v) : s \in { t \in SeqsUpTo(values, len - 1) : Len(t) = len - 1 },
                                  v \in values }

\* Calls of normalize_retry_intervals.
InitRetry ==
    /\ EmptyStore
    /\ locks = {}
    /\ config \in { c \in ConfigInputs : c.run_mode = "fast" /\ c.sensitive_paths = <<"infra/**">> }
    /\ call \in
        { [fn |-> "normalize_retry_intervals", max_retries |-> n, intervals |-> xs,
           done |-> FALSE, result |-> 0] :
            n \in 0..MaxRetryArg, xs \in SeqsUpTo(IntervalValues, MaxIntervals) }

normalize_call ==
    /\ ~ call.done
    /\ call' = [call EXCEPT !.done = TRUE,
                            !.result = normalize_retry_intervals(call.max_retries, call.intervals)]
    /\ UNCHANGED locks
    /\ StoreUnchanged

SpecRetry == InitRetry /\ [][normalize_call]_vars

\* Callers of with_redis_lock on the in-memory client (threads of one process).
Callers == 1..MaxCallers

LockKeys == {"repo:acme/repo", "repo:acme/other"}

\* A call of with_redis_lock about to start: `calls` counts the caller's calls,
\* `lock` is the lock object the call got from the client (0: none yet).
new_lock_call(key, calls) ==
    [fn |-> "with_redis_lock", pc |-> "start", key |-> key, calls |-> calls, lock |-> 0,
     ran |-> 0, raised |-> FALSE, result |-> "none"]

\* InMemoryRedis: no lock object registered under any key (registry 0: key not
\* in _locks), no lock object locked, none created.
InitLock ==
    /\ EmptyStore
    /\ locks = [registry |-> [key \in LockKeys |-> 0], held |-> {}, objects |-> 0]
    /\ config \in { c \in ConfigInputs : c.run_mode = "fast" /\ c.sensitive_paths = <<"infra/**">> }
    /\ call \in [Callers -> { new_lock_call(key, 1) : key \in LockKeys }]

\* InMemoryRedis.lock, the test `key not in self._locks`: a registered lock
\* object is returned, a missing one is about to be created.
lock_lookup(c) ==
    /\ call[c].pc = "start"
    /\ call' = IF locks.registry[call[c].key] = 0
               THEN [call EXCEPT ![c].pc = "create"]
               ELSE [call EXCEPT ![c].pc = "acquire", ![c].lock = locks.registry[call[c].key]]
    /\ UNCHANGED locks
    /\ StoreUnchanged

\* InMemoryRedis.lock, `self._locks[key] = threading.Lock()`: a new lock object
\* is registered under the key, over whatever is there, and returned.
lock_create(c) ==
    /\ call[c].pc = "create"
    /\ locks' = [locks EXCEPT !.objects = @ + 1, !.registry[call[c].key] = locks.objects + 1]
    /\ call' = [call EXCEPT ![c].pc = "acquire", ![c].lock = locks.objects + 1]
    /\ StoreUnchanged

\* lock.acquire(blocking=False): taken when free; otherwise the call returns
\* False at once.
lock_acquire(c) ==
    /\ call[c].pc = "acquire"
    /\ IF call[c].lock \in locks.held
       THEN /\ call' = [call EXCEPT ![c].pc = "done", ![c].result = "false"]
            /\ UNCHANGED locks
       ELSE /\ locks' = [locks EXCEPT !.held = @ \cup {call[c].lock}]
            /\ call' = [call EXCEPT ![c].pc = "acquired"]
    /\ StoreUnchanged

\* action() runs, and returns or raises.
run_action(c, raises) ==
    /\ call[c].pc = "acquired"
    /\ call' = [call EXCEPT ![c].pc = "finally", ![c].ran = @ + 1, ![c].raised = raises]
    /\ UNCHANGED locks
    /\ StoreUnchanged

\* finally: lock.release(), which releases the lock object if it is locked; then
\* the call returns True, or the error of action() goes on to the caller.
lock_release(c) ==
    /\ call[c].pc = "finally"
    /\ locks' = [locks EXCEPT !.held = @ \ {call[c].lock}]
    /\ call' = [call EXCEPT ![c].pc = "done",
                            ![c].result = IF call[c].raised THEN "raised" ELSE "true"]
    /\ StoreUnchanged

\* The caller makes its next call.
next_lock_call(c, key) ==
    /\ call[c].pc = "done"
    /\ call[c].calls < MaxLockCalls
    /\ call' = [call EXCEPT ![c] = new_lock_call(key, call[c].calls + 1)]
    /\ UNCHANGED locks
    /\ StoreUnchanged

NextLock ==
    \/ \E c \in Callers : lock_lookup(c)
    \/ \E c \in Callers : lock_create(c)
    \/ \E c \in Callers : lock_acquire(c)
    \/ \E c \in Callers, raises \in BOOLEAN : run_action(c, raises)
    \/ \E c \in Callers : lock_release(c)
    \/ \E c \in Callers, key \in LockKeys : next_lock_call(c, key)

SpecLock == InitLock /\ [][NextLock]_vars

\* Reason strings are sequences of pieces of text: a space, a colon, or a word.
\* upper() of a piece.
upper(piece) ==
    CASE piece = "cap_" -> "CAP_"
      [] piece = "git_" -> "GIT_"
      [] piece = "x" -> "X"
      [] OTHER -> piece

\* str.strip(): without the spaces at both ends.
RECURSIVE lstrip(_)
lstrip(text) == IF text # <<>> /\ Head(text) = " " THEN lstrip(Tail(text)) ELSE text

RECURSIVE rstrip(_)
rstrip(text) ==
    IF text # <<>> /\ text[Len(text)] = " " THEN rstrip(SubSeq(text, 1, Len(text) - 1))
    ELSE text

strip(text) == rstrip(lstrip(text))

\* text.split(":", 1)[0]: the part before the first colon.
RECURSIVE before_colon(_)
before_colon(text) ==
    IF text = <<>> \/ Head(text) = ":" THEN <<>>
    ELSE <<Head(text)>> \o before_colon(Tail(text))

\* A reason: present (not None) and its text.
normalize_failure_code(reason) ==
    IF ~ reason.present \/ reason.text = <<>> THEN <<"UNKNOWN">>
    ELSE LET raw == strip(reason.text)
         IN  IF raw = <<>> THEN <<"UNKNOWN">>
             ELSE LET code == strip(before_colon(raw))
                  IN  [i \in 1..Len(code) |-> upper(code[i])]

startswith(code, prefix) == code # <<>> /\ code[1] = prefix

endswith(code, suffix) == code # <<>> /\ code[Len(code)] = suffix

\* The chain of tests of classify_failure_reason on a code.
classify_code(code) ==
    IF startswith(code, "CAP_") THEN "budget_cap"
    ELSE IF startswith(code, "BLOCKED_COMMAND") THEN "command_policy"
    ELSE IF startswith(code, "DOMAIN_NOT_ALLOWLISTED") THEN "domain_policy"
    ELSE IF startswith(code, "ALLOWED_PATHS_VIOLATION") THEN "path_policy"
    ELSE IF endswith(code, "APPROVAL_REQUIRED") THEN "approval_gate"
    ELSE IF startswith(code, "SECRET_PATTERN_DETECTED") THEN "secret_guard"
    ELSE IF startswith(code, "ACCEPTANCE_COMMAND_FAILED") THEN "acceptance_test"
    ELSE IF startswith(code, "GIT_") THEN "git_failure"
    ELSE IF startswith(code, "GITHUB_") THEN "github_api"
    ELSE IF startswith(code, "KILL_SWITCH_ACTIVE") THEN "safety_control"
    ELSE IF startswith(code, "NO_") THEN "execution_logic"
    ELSE IF startswith(code, "WORKSPACE_NOT_READY") THEN "runtime_state"
    ELSE IF startswith(code, "INVALID_") THEN "input_validation"
    ELSE "runtime_error"

\* A classifier that tests the reason as it was given.
classify_failure_reason_raw(reason) ==
    classify_code(IF reason.present THEN reason.text ELSE <<>>)

classify_failure_reason(reason) == classify_code(normalize_failure_code(reason))

\* The pieces the reasons of the model are made of.
ReasonPieces == {" ", ":", "cap_", "CAP_", "git_", "x", "X", "APPROVAL_REQUIRED"}

Reasons ==
    {[present |-> FALSE, text |-> <<>>]}
        \cup { [present |-> TRUE, text |-> t] : t \in SeqsUpTo(ReasonPieces, MaxReasonLen) }

InitClassify ==
    /\ EmptyStore
    /\ locks = {}
    /\ config \in { c \in ConfigInputs : c.run_mode = "fast" /\ c.sensitive_paths = <<"infra/**">> }
    /\ call \in { [fn |-> "classify_failure_reason", reason |-> r, done |-> FALSE,
                   of_reason |-> "none", of_code |-> "none"] : r \in Reasons }

\* classify_failure_reason on the reason, and on the code normalize_failure_code
\* gives for it.
classify_call ==
    /\ ~ call.done
    /\ call' = [call EXCEPT
                    !.done = TRUE,
                    !.of_reason = classify_failure_reason(call.reason),
                    !.of_code = classify_failure_reason(
                                    [present |-> TRUE,
                                     text |-> normalize_failure_code(call.reason)])]
    /\ UNCHANGED locks
    /\ StoreUnchanged

SpecClassify == InitClassify /\ [][classify_call]_vars

\* ------------------------------------------- authentication of the requests

\* A check that lets every token pass.
require_operator_token_open(token, expected) == TRUE

\* require_operator_token: TRUE when it returns, FALSE when it raises the 403
\* (token None: no X-Operator-Token header).
require_operator_token(token, expected) ==
    IF expected = "" THEN TRUE
    ELSE ~ (token = None \/ token # expected)

\* hmac.new(secret, body, sha256).hexdigest(): a digest is a function of the key
\* and the body, and different keys or bodies give different digests.
hmac_sha256(secret, body) == [key |-> secret, body |-> body]

\* A verification that accepts any header that is present.
verify_github_signature_present(body, signature, secret) == signature.present

\* signature: the X-Hub-Signature-256 header (present or not), its text up to
\* and including the first "=" (scheme) and the text after it (digest).
verify_github_signature(body, signature, secret) ==
    IF secret = "" THEN TRUE
    ELSE IF ~ signature.present THEN FALSE
    ELSE IF signature.scheme # "sha256=" THEN FALSE
    ELSE hmac_sha256(secret, body) = signature.digest

\* The request is refused with `status`: nothing is written; `call` keeps the
\* last refusal, as "<status> <path>".
refuse(path, status) ==
    /\ call' = status \o " " \o path
    /\ UNCHANGED locks
    /\ StoreUnchanged

\* An endpoint that depends on operator_auth_dependency: `endpoint` runs when
\* the token passes.
operator_auth_dependency(token, path, endpoint) ==
    IF require_operator_token(token, config.operator_token)
    THEN endpoint
    ELSE refuse(path, "403")

\* POST /api/v1/webhooks/github: the signature check, then the handler.
github_webhook_request(req, signature) ==
    IF verify_github_signature(req, signature, config.webhook_secret)
    THEN github_webhook(req)
    ELSE refuse("/api/v1/webhooks/github", "401")

OperatorTokens == {None, "", "test-token", "wrong-token"}

WebhookSecrets == {"", "hook-secret"}

\* The X-Hub-Signature-256 headers a sender may attach to the body `req`: none,
\* the right digest under another scheme, the digest of another key or of another
\* body, and the right one.
Signatures(req) ==
    {[present |-> FALSE, scheme |-> "", digest |-> hmac_sha256("", req)]}
        \cup { [present |-> TRUE, scheme |-> s, digest |-> hmac_sha256(k, b)] :
                 s \in {"sha256=", "sha1="}, k \in {"hook-secret", "other-secret"},
                 b \in {req, [req EXCEPT !.issue_number = 42]} }

InitAuth ==
    /\ InitStore
    /\ config \in { [run_mode |-> "fast", sensitive_paths |-> <<"infra/**">>,
                     max_usd_per_day |-> 40 * 1000000, max_usd_per_month |-> 900 * 1000000,
                     operator_token |-> t, webhook_secret |-> s] :
                        t \in {"", "test-token"}, s \in WebhookSecrets }
    /\ job_limit = MaxJobs
    /\ workers = <<>>

\* The mutating endpoints behind the operator token, as one request with `token`.
OperatorRequest(token) ==
    \/ operator_auth_dependency(token, "/api/v1/jobs", create_job(CreateBase))
    \/ operator_auth_dependency(token, "/api/v1/intake/text", intake_text(CreateBase, 7))
    \/ \E j \in 1..MaxJobs, a \in ApprovalAction :
            operator_auth_dependency(token, "/api/v1/jobs/{job_id}/approve", approve_job(j, a))
    \/ \E j \in 1..MaxJobs :
            operator_auth_dependency(token, "/api/v1/jobs/{job_id}/reject",
                                     reject_job(j, "not wanted"))
    \/ operator_auth_dependency(token, "/api/v1/control/kill-switch", kill_switch)
    \/ operator_auth_dependency(token, "/api/v1/control/resume", resume)

\* The same endpoints with no check in front.
Endpoint ==
    \/ create_job(CreateBase)
    \/ intake_text(CreateBase, 7)
    \/ \E j \in 1..MaxJobs, a \in ApprovalAction : approve_job(j, a)
    \/ \E j \in 1..MaxJobs : reject_job(j, "not wanted")
    \/ kill_switch
    \/ resume

NextAuth ==
    \/ \E token \in OperatorTokens : OperatorRequest(token)
    \/ \E signature \in Signatures(WebhookBase) : github_webhook_request(WebhookBase, signature)
    \/ WindowExpires

SpecAuth == InitAuth /\ [][NextAuth]_vars

InitHappy ==
    /\ InitStore
    /\ config \in { c \in ConfigInputs : c.run_mode = "fast" /\ c.sensitive_paths = <<"infra/**">> }
    /\ job_limit = MaxJobs
    /\ workers = [w \in 1..MaxWorkers |-> IdleWorker]

NextHappy ==
    \/ \E k \in {"code", "deps", "destructive"} : create_job([CreateBase EXCEPT !.risk_class = k])
    \/ \E j \in JobIds, a \in {"destructive", "merge"} : approve_job(j, a)
    \/ \E w \in Workers : Runner(w)

\* The queue delivers every message and a worker that has taken one keeps going.
SpecHappy == InitHappy /\ [][NextHappy]_vars /\ WF_vars(\E w \in Workers : Runner(w))

\* Real mode: one worker runs one job against the forge and the completion model.
InitRelease ==
    /\ InitStore
    /\ config \in { c \in ConfigInputs : c.run_mode = "release" }
    /\ job_limit = MaxJobs
    /\ workers = [w \in 1..MaxWorkers |-> IdleWorker]

NextRelease ==
    \/ create_job(CreateBase)
    \/ \E j \in JobIds : approve_job(j, "infra")
    \/ \E w \in Workers : Runner(w)

SpecRelease == InitRelease /\ [][NextRelease]_vars

\* The worker process dies in the middle of a dispatch (killed, out of memory,
\* job timeout): process_job does not return.
worker_crash(w) ==
    /\ workers[w].pc \notin {"idle", "crashed"}
    /\ workers' = [workers EXCEPT ![w].pc = "crashed"]
    /\ UNCHANGED <<jobs, events, approvals, audits, ledger, incidents, queue, redelivered,
                   agents_flag, recent, pull_requests, config, job_limit, locks, call>>

\* The queue handles a call that did not return: with retries left (Retry(max))
\* the message is enqueued again; the worker is free for the next message.
rq_retry(w) ==
    /\ workers[w].pc = "crashed"
    /\ workers' = [workers EXCEPT ![w] = IdleWorker]
    /\ IF redelivered < queue_retry_max
       THEN /\ queue' = enqueue_job(queue, workers[w].job_id)
            /\ redelivered' = redelivered + 1
       ELSE UNCHANGED <<queue, redelivered>>
    /\ UNCHANGED <<jobs, events, approvals, audits, ledger, incidents, agents_flag, recent,
                   pull_requests, config, job_limit, locks, call>>

\* Release-mode runs of one job with worker crashes and the queue's retries.
NextCrash ==
    \/ \E cmds \in {<<>>, <<"rm -rf /">>} :
            create_job([CreateBase EXCEPT !.acceptance_commands = cmds])
    \/ \E w \in Workers : Runner(w)
    \/ \E w \in Workers : worker_crash(w)
    \/ \E w \in Workers : rq_retry(w)

SpecCrash == InitRelease /\ [][NextCrash]_vars

\* ------------------------------------------------------------- properties

RiskyClasses == {"infra", "secrets", "destructive"}

Last(s) == s[Len(s)]

\* Some worker holds job j in its session.
InProcess(j) == \E w \in Workers : workers[w].pc # "idle" /\ workers[w].job_id = j

\* The step takes a message of job j from the queue: a dispatch of j.
Dispatched(j) == queue'[j] < queue[j]

\* The step is one of a stage runner.
RunnerStep == workers' # workers \/ \E j \in JobIds : Dispatched(j)

\* C1: once a job's status is completed, failed or rejected, no step of a worker
\* or of the control plane changes it.
C1_TerminalStatusImmutable ==
    [][\A j \in JobIds :
            jobs[j].status \in TerminalStatus => jobs'[j].status = jobs[j].status]_vars

\* C2: a job of risk class infra, secrets or destructive is running or completed
\* only if an approved Approval row of the action of the same name exists for it.
C2_RunsOnlyWithMatchingApproval ==
    \A j \in JobIds :
        (jobs[j].risk_class \in RiskyClasses /\ jobs[j].status \in {"running", "completed"})
            => has_approval(j, jobs[j].risk_class)

\* A destructive job has completed, with approvals of several actions on record.
C2_Witness ==
    \E j \in JobIds :
        /\ jobs[j].risk_class = "destructive"
        /\ jobs[j].status = "completed"
        /\ has_approval(j, "destructive")
        /\ Len(approvals[j]) > 1

C4_OneLiveJobPerIssue ==
    \A j \in JobIds, k \in JobIds :
        (/\ j # k
         /\ jobs[j].repo = jobs[k].repo
         /\ jobs[j].issue_number = jobs[k].issue_number)
            => ~ (jobs[j].status \in NonTerminalStatus /\ jobs[k].status \in NonTerminalStatus)

\* C5: Job.cost_usd equals the sum of the job's CostLedger rows.
C5_CostEqualsLedger ==
    \A j \in JobIds : jobs[j].cost_usd = SeqSum(ledger[j])

\* C6: with the kill-switch flag false, a dispatch of a job in a non-terminal
\* status stores failed / KILL_SWITCH_ACTIVE, appends dispatch/failed and returns:
\* the worker runs no stage, nothing is charged, the status is not running.
C6_KillSwitchFailsDispatch ==
    [][\A j \in JobIds :
            (/\ Dispatched(j)
             /\ agents_flag = "false"
             /\ jobs[j].status \in NonTerminalStatus)
                => /\ jobs'[j].status = "failed"
                   /\ jobs'[j].failure_reason = "KILL_SWITCH_ACTIVE"
                   /\ events'[j] = Append(events[j],
                                          [stage |-> "dispatch", event_type |-> "failed"])
                   /\ workers' = workers
                   /\ ledger'[j] = ledger[j]
                   /\ jobs'[j].cost_usd = jobs[j].cost_usd]_vars

\* A queued job was dispatched while the flag was false.
C6_Witness ==
    \E j \in JobIds :
        /\ agents_flag = "false"
        /\ jobs[j].status = "failed"
        /\ jobs[j].failure_reason = "KILL_SWITCH_ACTIVE"
        /\ jobs[j].current_stage = "dispatch"
        /\ events[j] = << [stage |-> "enqueue", event_type |-> "created"],
                          [stage |-> "dispatch", event_type |-> "failed"] >>
        /\ ledger[j] = <<>>

\* C7: a dispatch of a job whose status is completed or rejected changes nothing
\* of the job's row and appends no event, approval, audit or ledger row, whatever
\* the kill-switch flag.
C7_TerminalDispatchIsNoop ==
    [][\A j \in JobIds :
            (Dispatched(j) /\ jobs[j].status \in {"completed", "rejected"})
                => /\ jobs'[j] = jobs[j]
                   /\ events'[j] = events[j]
                   /\ approvals'[j] = approvals[j]
                   /\ audits'[j] = audits[j]
                   /\ ledger'[j] = ledger[j]]_vars

StatusEdges ==
    { <<"queued", "running">>, <<"running", "awaiting_approval">>,
      <<"awaiting_approval", "queued">>, <<"running", "completed">>,
      <<"running", "failed">>, <<"queued", "rejected">> }

\* C8: every status change follows one of the six edges; running,
\* awaiting_approval, completed and failed are written by stage runners only,
\* queued and rejected by the control plane only.
C8_StatusEdges ==
    [][\A j \in JobIds :
            jobs'[j].status # jobs[j].status
                => /\ <<jobs[j].status, jobs'[j].status>> \in StatusEdges
                   /\ jobs'[j].status \in {"running", "awaiting_approval", "completed", "failed"}
                        => RunnerStep
                   /\ jobs'[j].status \in {"queued", "rejected"} => ~ RunnerStep]_vars

\* C9: an approve of a job records one Approval row with approved = TRUE and one
\* approval/approved event; a job that was awaiting_approval becomes queued and
\* gets exactly one more queue message, any other keeps its status and its
\* messages.
C9_ApproveRecordsAndRequeues ==
    [][\A j \in JobIds :
            approvals'[j] # approvals[j]
                => /\ Len(approvals'[j]) = Len(approvals[j]) + 1
                   /\ SubSeq(approvals'[j], 1, Len(approvals[j])) = approvals[j]
                   /\ Last(approvals'[j]).approved
                   /\ events'[j] = Append(events[j],
                                          [stage |-> "approval", event_type |-> "approved"])
                   /\ IF jobs[j].status = "awaiting_approval"
                      THEN jobs'[j].status = "queued" /\ queue'[j] = queue[j] + 1
                      ELSE jobs'[j].status = jobs[j].status /\ queue'[j] = queue[j]]_vars

\* A waiting job was approved: it is queued again with one message pending.
C9_Witness ==
    \E j \in JobIds :
        /\ jobs[j].status = "queued"
        /\ jobs[j].current_stage = "approval"
        /\ Len(approvals[j]) = 1
        /\ queue[j] = 1
        /\ Last(events[j]) = [stage |-> "approval", event_type |-> "approved"]
        /\ \E i \in 1..Len(events[j]) : events[j][i].event_type = "waiting"

\* The approval a waiting job waits for: infra at the execute stage, the action of
\* its risk class at the pre-execution gate.
waiting_for(j) == IF jobs[j].current_stage = "execute" THEN "infra" ELSE jobs[j].risk_class

\* C10: no job is left in awaiting_approval with the approval it waits for on
\* record, no queue message pending and no worker at work on it.
C10_NoLostWakeup ==
    \A j \in JobIds :
        (/\ jobs[j].status = "awaiting_approval"
         /\ waiting_for(j) \in ApprovalAction
         /\ has_approval(j, waiting_for(j)))
            => (queue[j] > 0 \/ InProcess(j))

\* C11: in simulated mode with every message delivered, a queued job of risk code
\* or deps reaches completed and its status changes only queued -> running ->
\* completed; a destructive job whose destructive approval is on record and whose
\* message is pending reaches completed.
C11_HappyPathCompletes ==
    /\ [][\A j \in JobIds :
            (jobs[j].risk_class \in {"code", "deps"} /\ jobs'[j].status # jobs[j].status)
                => <<jobs[j].status, jobs'[j].status>>
                        \in { <<"queued", "running">>, <<"running", "completed">> }]_vars
    /\ \A j \in 1..MaxJobs :
            (j \in JobIds /\ jobs[j].risk_class \in {"code", "deps"} /\ jobs[j].status = "queued")
                ~> (j \in JobIds /\ jobs[j].status = "completed")
    /\ \A j \in 1..MaxJobs :
            (/\ j \in JobIds
             /\ jobs[j].risk_class = "destructive"
             /\ has_approval(j, "destructive")
             /\ queue[j] > 0)
                ~> (j \in JobIds /\ jobs[j].status = "completed")

\* A destructive job waited, was approved and completed on the next dispatch.
C11_Witness ==
    \E j \in JobIds :
        /\ jobs[j].risk_class = "destructive"
        /\ jobs[j].status = "completed"
        /\ jobs[j].pr_url = None
        /\ events[j][2] = [stage |-> "approval", event_type |-> "waiting"]
        /\ events[j][3] = [stage |-> "approval", event_type |-> "approved"]
        /\ Last(events[j]) = [stage |-> "pr", event_type |-> "completed"]

\* C12: a reject of an existing job with reason r stores status rejected and
\* failure_reason r, appends exactly one approval/rejected event and enqueues nothing.
C12_RejectRecordsReason ==
    [][\A j \in JobIds, r \in RejectReasons :
            reject_job(j, r)
                => /\ jobs'[j].status = "rejected"
                   /\ jobs'[j].failure_reason = r
                   /\ events'[j] = Append(events[j],
                                          [stage |-> "approval", event_type |-> "rejected"])
                   /\ queue' = queue]_vars

\* The worker w steps: it leaves its position.
Steps(w) == workers[w].pc # "idle" /\ workers'[w] # workers[w]

\* The verdict of the spend governor on w's session once the step's ledger row is in.
verdict_after_charge(w) ==
    LET j == workers[w].job_id
        S == worker_session(w)
    IN  check_spend_caps(
            [S EXCEPT !.led = ledger'[j],
                      !.loc = [S.loc EXCEPT !.cost_usd = @ + Last(ledger'[j])]],
            j)

\* C13: when a stage of a dispatch has added a ledger row and the spend governor
\* would refuse the job on it, the dispatch ends there: the job does not advance
\* to the next stage.
C13_SpendCheckAfterCharge ==
    [][\A w \in Workers :
            (/\ Steps(w)
             /\ Len(ledger'[workers[w].job_id]) > Len(ledger[workers[w].job_id])
             /\ verdict_after_charge(w) # "ok")
                => workers'[w] = IdleWorker]_vars

\* The texts of the errors the stages and the spend governor raise.
ErrorMessages ==
    { "GITHUB_GET_ISSUE_FAILED", "LLM_REQUEST_FAILED", "CAP_DAILY_BUDGET_EXCEEDED",
      "CAP_MONTHLY_BUDGET_EXCEEDED", "CAP_COST_EXCEEDED", "GIT_CLONE_FAILED",
      "SECRET_PATTERN_DETECTED_IN_PATCH", "ALLOWED_PATHS_VIOLATION",
      "ACCEPTANCE_COMMAND_FAILED: pytest -q", "SECRET_PATTERN_DETECTED_IN_REVIEW",
      "GIT_PUSH_FAILED", "GITHUB_CREATE_PR_FAILED" }

FailedEvents(j) ==
    Cardinality({ i \in 1..Len(events[j]) : events[j][i].event_type = "failed" })

\* The events of job j that the runner wrote (the control plane writes the
\* enqueue and approval ones).
RunnerEvents(j) ==
    SelectSeq(events[j], LAMBDA e : e.stage \notin {"enqueue", "approval"})

\* C14: the handler, on any error text, leaves a session whose job is
\* awaiting_approval as it is (no failed event), and otherwise stores failed with
\* the text as failure_reason and appends one <current stage>/failed event; and a
\* dispatch that ends in a stage ends waiting (no failed event added), completed,
\* or failed with exactly one more failed event, of the stage it was in.
C14_ExceptHandler ==
    /\ \A w \in Workers, m \in ErrorMessages :
            workers[w].pc \in {"triage", "plan", "execute", "test", "review", "pr"}
                => LET S == worker_session(w)
                       W == add_job_event(
                                update_job_status(S, "awaiting_approval", "execute", None, None),
                                "execute", "waiting")
                       T == handle_exception(S, m)
                   IN  /\ handle_exception(W, m) = W
                       /\ W.row.status = "awaiting_approval"
                       /\ T.row.status = "failed"
                       /\ T.row.failure_reason = m
                       /\ T.ev = Append(S.ev, [stage |-> S.loc.current_stage,
                                               event_type |-> "failed"])
    /\ \A j \in JobIds :
            /\ FailedEvents(j) <= 1
            /\ (jobs[j].status = "awaiting_approval" /\ ~ InProcess(j))
                    => Last(RunnerEvents(j)).event_type = "waiting" /\ FailedEvents(j) = 0
            /\ (jobs[j].status = "failed" /\ ~ InProcess(j))
                    => /\ Last(RunnerEvents(j)) = [stage |-> jobs[j].current_stage,
                                                    event_type |-> "failed"]
                       /\ jobs[j].failure_reason \in ErrorMessages

\* A job that waited at the execute stage (an error raised while it was
\* awaiting_approval) was approved, ran again and failed in the review stage.
C14_Witness ==
    \E j \in JobIds :
        /\ ~ InProcess(j)
        /\ [stage |-> "execute", event_type |-> "waiting"] \in Range(events[j])
        /\ jobs[j].status = "failed"
        /\ jobs[j].failure_reason = "SECRET_PATTERN_DETECTED_IN_REVIEW"
        /\ Last(RunnerEvents(j)) = [stage |-> "review", event_type |-> "failed"]

\* Some path the execute stage changes matches a sensitive glob of the policy.
TouchesSensitive ==
    \E p \in Range(changed_paths), g \in Range(config.sensitive_paths) : fnmatch(p, g)

\* Job j is past the execute stage: a worker holds it in test, review or pr, or
\* an event of those stages was written, or it is completed.
PastExecute(j) ==
    \/ \E w \in Workers : workers[w].job_id = j /\ workers[w].pc \in {"test", "review", "pr"}
    \/ \E e \in Range(events[j]) : e.stage \in {"test", "review", "pr"}
    \/ jobs[j].status = "completed"

C16_CostNeverDecreases ==
    [][\A j \in JobIds : jobs'[j].cost_usd >= jobs[j].cost_usd]_vars

\* C17: once the status of a job is terminal, no step (of the runner, of approve
\* or of reject) appends an event to it; the event of the terminal transition is
\* written by the step that makes the status terminal.
C17_NoEventAfterTerminal ==
    [][\A j \in JobIds :
            jobs[j].status \in TerminalStatus => events'[j] = events[j]]_vars

\* Some job of the issue is queued, running or awaiting_approval, or the latest
\* job of the issue was created within the last two minutes.
InProgressOrRecent(repo, issue_number) ==
    \/ \E k \in JobIds : /\ jobs[k].repo = repo
                         /\ jobs[k].issue_number = issue_number
                         /\ jobs[k].status \in {"queued", "running", "awaiting_approval"}
    \/ latest_job_for_issue(repo, issue_number) \in recent

\* C18: a webhook for a (repo, issue) that has a job in queued, running or
\* awaiting_approval, or whose latest job is less than 120 seconds old, is not
\* accepted: it creates no job, no event and no queue message.
C18_WebhookDeduplicates ==
    [][\A req \in WebhookInputs :
            (github_webhook(req) /\ InProgressOrRecent(req.repo, req.issue_number))
                => /\ ~ webhook_accepts(req)
                   /\ UNCHANGED <<jobs, events, queue>>]_vars

\* The pr/completed events of job j.
ProposeCompletions(j) ==
    Cardinality({ i \in 1..Len(events[j]) :
                    events[j][i] = [stage |-> "pr", event_type |-> "completed"] })

\* C19: over all the dispatches of a job, sequential or overlapping, the propose
\* stage completes at most once: at most one draft pull request is requested and
\* at most one pr/completed event is written.
C19_ProposeAtMostOnce ==
    \A j \in JobIds : ProposeCompletions(j) <= 1 /\ pull_requests[j] <= 1

\* C20: agents_enabled is true while the flag was never set; a kill-switch call
\* makes it false and a resume call makes it true, so that it equals the argument
\* of the latest set_kill_switch call; and a dispatch made while the flag is
\* "true" (after a resume) does not fail the job with KILL_SWITCH_ACTIVE.
C20_KillSwitchFlag ==
    [][ /\ agents_flag = None => agents_enabled
        /\ kill_switch => ~ agents_enabled'
        /\ resume => agents_enabled'
        /\ \A enabled \in BOOLEAN : set_kill_switch(enabled) => (agents_enabled' = enabled)
        /\ \A j \in JobIds :
            (Dispatched(j) /\ agents_flag = "true")
                => /\ Len(events'[j]) > Len(events[j])
                        => Last(events'[j]) # [stage |-> "dispatch", event_type |-> "failed"]
                   /\ jobs'[j].failure_reason = "KILL_SWITCH_ACTIVE"
                        => jobs[j].failure_reason = "KILL_SWITCH_ACTIVE"
      ]_vars

\* After a kill switch and a resume the flag is "true", and a job that a dispatch
\* under the kill switch had failed was dispatched again and ran its triage.
C20_Witness ==
    /\ agents_flag = "true"
    /\ Len(incidents) >= 2
    /\ incidents[1].severity = "warning"
    /\ Last(incidents).severity = "info"
    /\ \E j \in JobIds :
        \E i \in 1..Len(events[j]), k \in 1..Len(events[j]) :
            /\ i < k
            /\ events[j][i] = [stage |-> "dispatch", event_type |-> "failed"]
            /\ events[j][k] = [stage |-> "triage", event_type |-> "completed"]

\* The position after pc when the stage at pc succeeds.
NextPc(pc) ==
    CASE pc = "start" -> "triage"
      [] pc = "triage" -> "plan"
      [] pc = "plan" -> "execute"
      [] pc = "execute" -> "test"
      [] pc = "test" -> "review"
      [] pc = "review" -> "pr"
      [] OTHER -> "idle"

\* C21: a step of a dispatch that is past its dispatch-time check, taken while
\* the kill switch is active, is a step of the job's own stages: it writes no
\* dispatch/failed event and no KILL_SWITCH_ACTIVE reason, and either moves on to
\* the next stage or ends the dispatch completed, failed by the stage's own
\* error, or awaiting_approval.
C21_KillSwitchSparesInFlight ==
    [][\A w \in Workers :
            LET j == workers[w].job_id
            IN  (Steps(w) /\ ~ agents_enabled)
                    => /\ [stage |-> "dispatch", event_type |-> "failed"]
                              \notin { events'[j][i] : i \in (Len(events[j]) + 1)..Len(events'[j]) }
                       /\ jobs'[j].failure_reason = "KILL_SWITCH_ACTIVE"
                              => jobs[j].failure_reason = "KILL_SWITCH_ACTIVE"
                       /\ \/ workers'[w].pc = NextPc(workers[w].pc) /\ workers'[w].pc # "idle"
                          \/ /\ workers'[w] = IdleWorker
                             /\ Len(events'[j]) > Len(events[j])
                             /\ Last(events'[j]) \in
                                   { [stage |-> "pr", event_type |-> "completed"],
                                     [stage |-> "execute", event_type |-> "waiting"],
                                     [stage |-> "approval", event_type |-> "waiting"],
                                     [stage |-> workers[w].job.current_stage,
                                      event_type |-> "failed"],
                                     [stage |-> "triage", event_type |-> "failed"] }
      ]_vars

\* The kill switch was activated while a worker was in flight, and the worker
\* has since reached the review stage.
C21_Witness ==
    /\ agents_flag = "false"
    /\ \E w \in Workers :
        /\ workers[w].pc = "review"
        /\ Last(events[workers[w].job_id]) = [stage |-> "test", event_type |-> "completed"]

\* The failed events in a job's event list.
FailedIn(evs) == Cardinality({ i \in 1..Len(evs) : evs[i].event_type = "failed" })

\* C22: a step of a dispatch in which a stage's error is handled (a failed event
\* is written) marks the job failed and returns normally, with no message put on
\* the queue; and a message is put on the queue for an existing job, outside an
\* approval, only for a worker whose process_job call did not return.
C22_RetryOnlyOnCrash ==
    [][ /\ \A w \in Workers :
            LET j == workers[w].job_id
            IN  (/\ Steps(w)
                 /\ workers[w].pc # "crashed"
                 /\ FailedIn(events'[workers[w].job_id]) > FailedIn(events[j]))
                    => /\ workers'[w] = IdleWorker
                       /\ jobs'[j].status = "failed"
                       /\ queue' = queue
        /\ \A j \in JobIds :
            (queue'[j] > queue[j] /\ approvals' = approvals)
                => \E w \in Workers : workers[w].pc = "crashed" /\ workers[w].job_id = j
      ]_vars

\* A job failed on a blocked acceptance command (a policy denial): the worker is
\* idle again and no message of the job is on the queue.
C22_Witness ==
    \E j \in JobIds :
        /\ jobs[j].status = "failed"
        /\ jobs[j].failure_reason = "BLOCKED_COMMAND: rm -rf /"
        /\ queue[j] = 0
        /\ redelivered = 0
        /\ \A w \in Workers : workers[w] = IdleWorker

\* C23: the spend-governor check gives the first outcome that applies, in the
\* order JOB_NOT_FOUND, CAP_DAILY_BUDGET_EXCEEDED (today's sum > max_usd_per_day),
\* CAP_MONTHLY_BUDGET_EXCEEDED (this month's sum > max_usd_per_month),
\* CAP_COST_EXCEEDED (cost_usd > caps.max_usd), and passes otherwise; every
\* comparison is strict, so a value equal to its cap passes.
C23_SpendCheckOrder ==
    call.result # None
        => /\ call.result = "JOB_NOT_FOUND" <=> ~ call.found
           /\ call.result = "CAP_DAILY_BUDGET_EXCEEDED"
                <=> call.found /\ call.daily > config.max_usd_per_day
           /\ call.result = "CAP_MONTHLY_BUDGET_EXCEEDED"
                <=> /\ call.found
                    /\ call.daily <= config.max_usd_per_day
                    /\ call.monthly > config.max_usd_per_month
           /\ call.result = "CAP_COST_EXCEEDED"
                <=> /\ call.found
                    /\ call.daily <= config.max_usd_per_day
                    /\ call.monthly <= config.max_usd_per_month
                    /\ call.job.cost_usd > call.job.caps_max_usd
           /\ call.result \in {"JOB_NOT_FOUND", "CAP_DAILY_BUDGET_EXCEEDED",
                               "CAP_MONTHLY_BUDGET_EXCEEDED", "CAP_COST_EXCEEDED", "ok"}

\* The check has passed with all three amounts exactly at their caps.
C23_Witness ==
    /\ call.result = "ok"
    /\ call.found
    /\ call.daily = config.max_usd_per_day
    /\ call.monthly = config.max_usd_per_month
    /\ call.job.cost_usd = call.job.caps_max_usd

\* C24: for a list xs of positive values, normalize_retry_intervals(n, xs) is
\* the single value xs[1] (30 when xs is empty) when n <= 1; when n >= 2 it is a
\* list of exactly n values: the first n of xs when xs has at least n, and xs
\* followed by copies of its last element otherwise.
C24_NormalizeRetryIntervals ==
    LET n == call.max_retries
        xs == call.intervals
    IN  (call.done /\ \A i \in 1..Len(xs) : xs[i] > 0)
            => IF n <= 1
               THEN call.result = IF xs = <<>> THEN 30 ELSE xs[1]
               ELSE /\ Len(call.result) = n
                    /\ Len(xs) >= n => call.result = SubSeq(xs, 1, n)
                    /\ (xs # <<>> /\ Len(xs) < n)
                            => call.result = xs \o [i \in 1..(n - Len(xs)) |-> Last(xs)]

\* Three retries were asked with two positive intervals: the list was padded.
C24_Witness ==
    /\ call.done
    /\ call.max_retries = 3
    /\ call.intervals = <<30, 120>>
    /\ call.result = <<30, 120, 120>>

\* Caller c is between its acquire and its release of `key`.
Holds(c, key) == call[c].key = key /\ call[c].pc \in {"acquired", "finally"}

\* Some lock object of `key` is locked: a caller that got it is between its
\* acquire and its release.
KeyHeld(key) == \E c \in Callers : Holds(c, key)

\* C25: with_lock never blocks (a call that has started can always take its next
\* step); while the lock of its key is held a call returns false without
\* running fn, so at most one caller is between acquire and release on a key;
\* having acquired the lock a call runs fn exactly once and returns true; and on
\* every exit, also when fn raises, the lock is released, so that a later call
\* on the key can acquire it.
C25_WithLock ==
    /\ \A c \in Callers :
        /\ call[c].pc = "start" => ENABLED lock_lookup(c)
        /\ call[c].pc = "create" => ENABLED lock_create(c)
        /\ call[c].pc = "acquire" => ENABLED lock_acquire(c)
        /\ (call[c].pc = "done" /\ call[c].result = "false") => call[c].ran = 0
        /\ (call[c].pc = "done" /\ call[c].result = "true")
                => call[c].ran = 1 /\ ~ call[c].raised
        /\ (call[c].pc = "done" /\ call[c].result = "raised")
                => call[c].ran = 1 /\ call[c].raised
        /\ call[c].pc = "done" => call[c].result \in {"false", "true", "raised"}
        /\ (call[c].pc = "done" /\ call[c].lock # 0 /\ call[c].result # "false")
                => \/ call[c].lock \notin locks.held
                   \/ \E other \in Callers \ {c} : Holds(other, call[c].key)
    /\ \A key \in LockKeys :
        /\ Cardinality({ c \in Callers : Holds(c, key) }) <= 1
        /\ locks.registry[key] \in locks.held => KeyHeld(key)

\* C26: for every reason r (absent, empty, spaces only, with or without a colon)
\* classify(normalize(r)) equals classify(r).
C26_ClassifyOfNormalized ==
    call.done => call.of_code = call.of_reason

\* A reason with a space in front, a lower-case code and a colon was classified
\* as a budget cap both ways.
C26_Witness ==
    /\ call.done
    /\ call.reason = [present |-> TRUE, text |-> <<" ", "cap_", ":", "x">>]
    /\ call.of_reason = "budget_cap"
    /\ call.of_code = "budget_cap"

\* What the control plane and the intake write.
written == <<jobs, events, approvals, incidents, agents_flag, queue, audits, ledger>>

\* C27: a mutating control-plane request (create job, text intake, approve,
\* reject, kill-switch, resume) whose operator token is missing or differs from a
\* non-empty configured token is refused with 403 and writes nothing: no job,
\* approval, event or incident, and the kill-switch flag stays; with an empty
\* configured token every request is the endpoint's own step.
C27_OperatorTokenRequired ==
    [][\A token \in OperatorTokens :
            /\ (/\ config.operator_token # ""
                /\ token # config.operator_token
                /\ OperatorRequest(token))
                    => /\ UNCHANGED written
                       /\ call' \in { "403 " \o path :
                                        path \in {"/api/v1/jobs", "/api/v1/intake/text",
                                                  "/api/v1/jobs/{job_id}/approve",
                                                  "/api/v1/jobs/{job_id}/reject",
                                                  "/api/v1/control/kill-switch",
                                                  "/api/v1/control/resume"} }
            /\ (config.operator_token = "" /\ Endpoint) => OperatorRequest(token)
      ]_vars

\* A kill-switch request was refused with 403 under a configured token, and the
\* flag has never been set.
C27_Witness ==
    /\ config.operator_token = "test-token"
    /\ call = "403 /api/v1/control/kill-switch"
    /\ agents_flag = None
    /\ incidents = <<>>

\* C28: a webhook whose signature does not verify against a non-empty configured
\* secret (header missing, not starting with sha256=, or a wrong digest) is
\* answered 401 and creates no job, event or queue message; with an empty secret
\* every webhook gets past the signature check to the handler.
C28_WebhookSignatureRequired ==
    [][\A signature \in Signatures(WebhookBase) :
            /\ (/\ config.webhook_secret # ""
                /\ \/ ~ signature.present
                   \/ signature.scheme # "sha256="
                   \/ signature.digest # hmac_sha256(config.webhook_secret, WebhookBase)
                /\ github_webhook_request(WebhookBase, signature))
                    => /\ UNCHANGED <<jobs, events, queue>>
                       /\ call' = "401 /api/v1/webhooks/github"
            /\ (config.webhook_secret = "" /\ github_webhook(WebhookBase))
                    => github_webhook_request(WebhookBase, signature)
      ]_vars

\* A webhook was refused with 401 under a configured secret and no job exists.
C28_Witness ==
    /\ config.webhook_secret = "hook-secret"
    /\ call = "401 /api/v1/webhooks/github"
    /\ jobs = <<>>
    /\ queue = <<>>

\* The created events of job j.
CreatedEvents(j) ==
    { i \in 1..Len(events[j]) : events[j][i].event_type = "created" }

\* C29: a job is stored with status queued together with its created event, in
\* one commit: in every state every stored job has exactly one created event,
\* and it is the first event of the job.
C29_CreatedEventFirst ==
    [][ /\ \A j \in 1..Len(jobs') :
            /\ Len(events') >= j
            /\ CreatedEvents(j)' = {1}
            /\ events'[j][1] = [stage |-> "enqueue", event_type |-> "created"]
        /\ \A j \in (Len(jobs) + 1)..Len(jobs') : jobs'[j].status = "queued"
      ]_vars

\* A job that has run to completion still has its created event first.
C29_Witness ==
    \E j \in JobIds :
        /\ jobs[j].status = "completed"
        /\ Len(events[j]) > 1
        /\ events[j][1] = [stage |-> "enqueue", event_type |-> "created"]

\* ------------------------------------------------- POST /api/v1/jobs alone

MaxCreateJobs == 2

\* Bodies of POST /api/v1/jobs: every repository, and each override either
\* given or left out (base_branch and caps absent, the lists empty).
CreateRequests ==
    { [repo |-> r, issue_number |-> 7, risk_class |-> "code", base_branch |-> b,
       allowed_paths |-> p, acceptance_commands |-> a, caps |-> c] :
        r \in Repos, b \in {None, "release"}, p \in {<<>>, <<"src/**">>},
        a \in {<<>>, <<"make test">>}, c \in {<<>>, <<2 * DefaultCapsMaxUsd>>} }

InitCreate ==
    /\ InitStore
    /\ config \in { c \in ConfigInputs : c.run_mode = "fast" /\ c.sensitive_paths = <<"infra/**">> }
    /\ job_limit = MaxCreateJobs
    /\ workers = <<>>

NextCreate == \E req \in CreateRequests : create_job(req)

SpecCreate == InitCreate /\ [][NextCreate]_vars

\* The job the specification of POST /api/v1/jobs describes for a request: each
\* of the four settings is the request's where given, the default otherwise.
ExpectedJob(req) ==
    new_job(req.repo, req.issue_number,
            IF req.base_branch # None THEN req.base_branch
            ELSE repo_profiles[req.repo].default_base_branch,
            req.risk_class,
            IF req.allowed_paths # <<>> THEN req.allowed_paths
            ELSE repo_profiles[req.repo].allowed_paths,
            IF req.acceptance_commands # <<>> THEN req.acceptance_commands
            ELSE repo_profiles[req.repo].acceptance_commands,
            IF req.caps # <<>> THEN req.caps[1] ELSE DefaultCapsMaxUsd)

\* C30: an operator create for a repository that is not allowlisted or has no
\* enabled profile persists nothing; any other create persists exactly one
\* queued job whose base branch, allowed paths, acceptance commands and caps are
\* the request's overrides where given and the profile or policy defaults
\* otherwise, and enqueues it once.
C30_OperatorCreate ==
    [][ \A req \in CreateRequests :
            create_job(req) =>
                IF repo_allowed(req.repo) /\ profile_enabled(req.repo)
                THEN /\ Len(jobs') = Len(jobs) + 1
                     /\ jobs'[Len(jobs')] = ExpectedJob(req)
                     /\ jobs'[Len(jobs')].status = "queued"
                     /\ queue'[Len(jobs')] = 1
                ELSE UNCHANGED <<jobs, events, queue>>
      ]_vars

\* ------------------------------------------------- webhook deliveries alone

\* Every job comes from a webhook; jobs are rejected and time passes.
NextWebhook ==
    \/ \E req \in WebhookInputs : github_webhook(req)
    \/ \E j \in JobIds : reject_job(j, "not wanted")
    \/ WindowExpires

SpecWebhook == InitDedupe /\ [][NextWebhook]_vars

\* A delivery that passes every check before the duplicate suppression.
WellFormed(req) ==
    /\ agents_enabled
    /\ req.event = "issues"
    /\ IF req.action = "labeled" THEN lower(req.labeled) = "agent-ready"
       ELSE contains(label_names(req), "agent-ready")
    /\ repo_allowed(req.repo)
    /\ req.issue_number # 0
    /\ profile_enabled(req.repo)

\* C31: a second webhook for a (repo, issue) whose job A was created by a webhook
\* less than 120 seconds ago returns accepted=false with the message
\* "Duplicate webhook ignored: <job_id of A>" and creates no job, whatever the
\* status of job A.
C31_DuplicateWebhookIgnored ==
    \A req \in WebhookInputs : \A a \in JobIds :
        ( /\ WellFormed(req)
          /\ jobs[a].repo = req.repo
          /\ jobs[a].issue_number = req.issue_number
          /\ a \in recent )
            => /\ webhook_result(req) =
                    [accepted |-> FALSE, message |-> <<"Duplicate webhook ignored: ", a>>,
                     job_id |-> None]
               /\ ~ webhook_accepts(req)

\* ------------------------------------------------- classify on failure codes

MaxCodeLen == 2

\* Upper-case failure codes: the markers the classifier looks for, alone or
\* followed or preceded by other text.
CodePieces ==
    {"CAP_", "BLOCKED_COMMAND", "DOMAIN_NOT_ALLOWLISTED", "ALLOWED_PATHS_VIOLATION",
     "APPROVAL_REQUIRED", "SECRET_PATTERN_DETECTED", "ACCEPTANCE_COMMAND_FAILED", "GIT_",
     "GITHUB_", "KILL_SWITCH_ACTIVE", "NO_", "WORKSPACE_NOT_READY", "INVALID_", "UNKNOWN",
     "X"}

InitTaxonomy ==
    /\ EmptyStore
    /\ locks = {}
    /\ config \in { c \in ConfigInputs : c.run_mode = "fast" /\ c.sensitive_paths = <<"infra/**">> }
    /\ call \in { [fn |-> "classify_failure_reason",
                   reason |-> [present |-> TRUE, text |-> t], done |-> FALSE,
                   of_reason |-> "none", of_code |-> "none"] :
                        t \in SeqsUpTo(CodePieces, MaxCodeLen) \ {<<>>} }

SpecTaxonomy == InitTaxonomy /\ [][classify_call]_vars

\* The first matching rule of the documented list, for a failure code.
FirstMatchingRule(code) ==
    IF startswith(code, "CAP_") THEN "budget_cap"
    ELSE IF startswith(code, "BLOCKED_COMMAND") THEN "command_policy"
    ELSE IF startswith(code, "DOMAIN_NOT_ALLOWLISTED") THEN "domain_policy"
    ELSE IF startswith(code, "ALLOWED_PATHS_VIOLATION") THEN "path_policy"
    ELSE IF endswith(code, "APPROVAL_REQUIRED") THEN "approval_gate"
    ELSE IF startswith(code, "SECRET_PATTERN_DETECTED") THEN "secret_guard"
    ELSE IF startswith(code, "ACCEPTANCE_COMMAND_FAILED") THEN "acceptance_test"
    ELSE IF startswith(code, "GIT_") THEN "git_failure"
    ELSE IF startswith(code, "GITHUB_") THEN "github_api"
    ELSE IF code = <<"KILL_SWITCH_ACTIVE">> THEN "safety_control"
    ELSE IF startswith(code, "NO_") THEN "execution_logic"
    ELSE IF code = <<"WORKSPACE_NOT_READY">> THEN "runtime_state"
    ELSE IF startswith(code, "INVALID_") THEN "input_validation"
    ELSE "runtime_error"

\* C32: classify maps a failure code to the first matching rule, in this order:
\* prefix CAP_, prefix BLOCKED_COMMAND, prefix DOMAIN_NOT_ALLOWLISTED, prefix
\* ALLOWED_PATHS_VIOLATION, suffix APPROVAL_REQUIRED, prefix
\* SECRET_PATTERN_DETECTED, prefix ACCEPTANCE_COMMAND_FAILED, prefix GIT_, prefix
\* GITHUB_, the code KILL_SWITCH_ACTIVE, prefix NO_, the code
\* WORKSPACE_NOT_READY, prefix INVALID_; anything else is a runtime_error.
C32_ClassifyRules ==
    call.done => call.of_reason = FirstMatchingRule(call.reason.text)

\* ------------------------------------------------- risk detection on its own

MaxLabels == 3

\* Label names as they come in the payload.
LabelValues ==
    {"destructive", "secrets", "infra", "deps", "dependencies", "security", "agent-ready",
     "Infra"}

InitRisk ==
    /\ EmptyStore
    /\ locks = {}
    /\ config \in { c \in ConfigInputs : c.run_mode = "fast" /\ c.sensitive_paths = <<"infra/**">> }
    /\ call \in { [fn |-> "_detect_risk", labels |-> l, done |-> FALSE, risk |-> "none"] :
                        l \in SeqsUpTo(LabelValues, MaxLabels) }

\* The webhook reads the labels of the payload and detects the risk.
detect_call ==
    /\ ~ call.done
    /\ call' = [call EXCEPT !.done = TRUE, !.risk = detect_risk(label_names(call))]
    /\ UNCHANGED locks
    /\ StoreUnchanged

SpecRisk == InitRisk /\ [][detect_call]_vars

\* The set of the labels of a payload, whatever their order.
LabelSet(labels) == { lower(labels[i]) : i \in 1..Len(labels) }

\* C33: the risk detected from a webhook's labels is destructive if
\* 'destructive' is among the labels, else secrets if 'secrets' is, else infra
\* if 'infra' is, else deps if any of deps, dependencies or security is, else
\* code; it depends on the set of the labels only, not on their order.
C33_RiskPriority ==
    call.done =>
        LET among == LabelSet(call.labels)
        IN  call.risk =
                IF "destructive" \in among THEN "destructive"
                ELSE IF "secrets" \in among THEN "secrets"
                ELSE IF "infra" \in among THEN "infra"
                ELSE IF among \cap {"deps", "dependencies", "security"} # {} THEN "deps"
                ELSE "code"

\* A payload that lists infra before destructive was detected as destructive.
C33_Witness ==
    /\ call.done
    /\ call.labels = <<"infra", "security", "destructive">>
    /\ call.risk = "destructive"

\* ------------------------------------------------- the test stage on its own

MaxCommands == 3

\* Acceptance commands: one that is fine, one that is blocked, and commands with
\* URLs on and off the domain allowlist.
CommandValues ==
    {"pytest -q", "rm -rf /", "curl https://api.github.com/x",
     "curl https://malicious.example.net/x",
     "curl https://api.github.com/x https://malicious.example.net/x"}

\* A running job at the start of its test stage, in a session of its own.
TestSession(commands) ==
    LET job == [new_job(AllowedRepo, 7, "main", "code", <<>>, commands, DefaultCapsMaxUsd)
                    EXCEPT !.status = "running", !.current_stage = "test"]
    IN  [row |-> job, loc |-> job, ev |-> <<>>, led |-> <<>>, aud |-> <<>>]

InitTest ==
    /\ EmptyStore
    /\ locks = {}
    /\ config \in { c \in ConfigInputs : c.run_mode = "release" /\ c.sensitive_paths = <<"infra/**">> }
    /\ call \in { [fn |-> "test_stage", commands |-> c, exits |-> e, done |-> FALSE,
                   executed |-> <<>>, status |-> "running", failure_reason |-> None,
                   audits |-> <<>>, events |-> <<>>] :
                        c \in SeqsUpTo(CommandValues, MaxCommands),
                        e \in SeqsUpTo({0, 1}, MaxCommands) }
    /\ Len(call.exits) = Len(call.commands)

\* _run_stage("test", test_stage) on the job of the call.
test_call ==
    /\ ~ call.done
    /\ LET S == run_commands(TestSession(call.commands), call.commands, call.exits)
       IN  call' = [call EXCEPT
                        !.done = TRUE,
                        !.executed = acceptance_loop(call.commands, call.exits, 1, <<>>).executed,
                        !.status = S.row.status,
                        !.failure_reason = S.row.failure_reason,
                        !.audits = S.aud,
                        !.events = S.ev]
    /\ UNCHANGED locks
    /\ StoreUnchanged

SpecTest == InitTest /\ [][test_call]_vars

\* The command passes the blocked-command check and the domain check of every
\* URL it contains.
PassesChecks(command) ==
    /\ ~ is_blocked_command(command)
    /\ \A i \in 1..Len(command_urls(command)) : domain_allowed(command_urls(command)[i])

\* The positions of the commands that are blocked, name a non-allowlisted
\* domain, or exit non-zero.
Stoppers(commands, exits) ==
    { i \in 1..Len(commands) : ~ PassesChecks(commands[i]) \/ exits[i] # 0 }

\* C34: the test stage handles the acceptance commands in list order and executes
\* a command only after it has passed the blocked-command check and the domain
\* check of each of its URLs; at the first command that is blocked, names a
\* non-allowlisted domain or exits non-zero the job fails (BLOCKED_COMMAND or
\* DOMAIN_NOT_ALLOWLISTED with a deny audit row, or ACCEPTANCE_COMMAND_FAILED)
\* and no later command is executed.
C34_AcceptanceCommandsInOrder ==
    call.done =>
        LET stoppers == Stoppers(call.commands, call.exits)
            first == CHOOSE i \in stoppers : \A o \in stoppers : i <= o
            command == call.commands[first]
        IN  /\ \A i \in 1..Len(call.executed) : PassesChecks(call.executed[i])
            /\ Len(call.executed) <= Len(call.commands)
            /\ call.executed = SubSeq(call.commands, 1, Len(call.executed))
            /\ IF stoppers = {}
               THEN /\ call.executed = call.commands
                    /\ call.status = "running"
                    /\ call.audits = <<>>
               ELSE /\ call.status = "failed"
                    /\ Len(call.executed) <= first
                    /\ IF is_blocked_command(command)
                       THEN /\ call.failure_reason = "BLOCKED_COMMAND: " \o command
                            /\ call.audits = <<[decision |-> "deny", rule_id |-> "blocked_command"]>>
                            /\ Len(call.executed) = first - 1
                       ELSE IF ~ PassesChecks(command)
                       THEN /\ \E i \in 1..Len(command_urls(command)) :
                                    call.failure_reason =
                                        "DOMAIN_NOT_ALLOWLISTED: " \o command_urls(command)[i]
                            /\ call.audits = <<[decision |-> "deny", rule_id |-> "domain_allowlist"]>>
                            /\ Len(call.executed) = first - 1
                       ELSE /\ call.failure_reason = "ACCEPTANCE_COMMAND_FAILED: " \o command
                            /\ call.audits = <<>>
                            /\ Len(call.executed) = first

\* Two commands ran, the third was refused for its second URL, and the job failed.
C34_Witness ==
    /\ call.done
    /\ call.commands = <<"pytest -q", "curl https://api.github.com/x",
                         "curl https://api.github.com/x https://malicious.example.net/x">>
    /\ call.executed = <<"pytest -q", "curl https://api.github.com/x">>
    /\ call.status = "failed"
    /\ call.failure_reason = "DOMAIN_NOT_ALLOWLISTED: https://malicious.example.net/x"

\* ------------------------------------------------- jobs with allowed paths

\* allowed_paths of the requests: none, globs the changed path of one mode or of
\* no mode matches, and a list whose second glob matches.
AllowedPathsInputs == { <<>>, <<"docs/**">>, <<"src/**">>, <<"src/**", "*.md">> }

InitPaths ==
    /\ InitStore
    /\ config \in ConfigInputs
    /\ job_limit = MaxJobs
    /\ workers = [w \in 1..MaxWorkers |-> IdleWorker]

\* One job with allowed paths is created, run, approved or rejected.
NextPaths ==
    \/ \E p \in AllowedPathsInputs : create_job([CreateBase EXCEPT !.allowed_paths = p])
    \/ \E j \in JobIds : approve_job(j, "infra")
    \/ \E j \in JobIds : reject_job(j, "not wanted")
    \/ \E w \in Workers : Runner(w)

SpecPaths == InitPaths /\ [][NextPaths]_vars

\* Some changed path of the execute stage matches none of the allowed-path globs
\* of the job; an empty list allows every path.
OutsideAllowedPaths(job) ==
    /\ job.allowed_paths # <<>>
    /\ \E i \in 1..Len(changed_paths) :
            \A k \in 1..Len(job.allowed_paths) : ~ fnmatch(changed_paths[i], job.allowed_paths[k])

\* C35: when a changed path of the execute stage is outside the job's allowed
\* paths, the execute stage ends the job failed with ALLOWED_PATHS_VIOLATION and
\* a deny/allowed_paths audit row; the patch is not accepted (no allow audit row
\* and no execute/completed event, which are written with patch.diff), and the
\* test, review and pr stages never run for the job.
C35_AllowedPathsViolation ==
    [][ /\ \A w \in Workers :
            ( /\ workers[w].pc = "execute"
              /\ OutsideAllowedPaths(workers[w].job)
              /\ \E c \in ModelCosts : execute_stage(w, c, "ok") )
                => /\ workers'[w].pc = "idle"
                   /\ jobs'[workers[w].job_id].status = "failed"
                   /\ jobs'[workers[w].job_id].failure_reason = "ALLOWED_PATHS_VIOLATION"
                   /\ audits'[workers[w].job_id] =
                        Append(audits[workers[w].job_id],
                               [decision |-> "deny", rule_id |-> "allowed_paths"])
        /\ \A j \in 1..Len(jobs') :
            OutsideAllowedPaths(jobs'[j])
                => /\ \A i \in 1..Len(events'[j]) :
                        /\ events'[j][i].stage \notin {"test", "review", "pr"}
                        /\ events'[j][i] # [stage |-> "execute", event_type |-> "completed"]
                   /\ \A i \in 1..Len(audits'[j]) :
                        audits'[j][i] # [decision |-> "allow", rule_id |-> "allowed_paths"]
                   /\ \A w \in DOMAIN workers' :
                        workers'[w].job_id = j => workers'[w].pc \notin {"test", "review", "pr"}
                   /\ jobs'[j].current_stage \notin {"test", "review", "pr"}
      ]_vars

\* A job whose allowed paths do not cover the changed path has failed in the
\* execute stage with the deny audit row.
C35_Witness ==
    \E j \in JobIds :
        /\ jobs[j].allowed_paths = <<"src/**">>
        /\ jobs[j].status = "failed"
        /\ jobs[j].current_stage = "execute"
        /\ jobs[j].failure_reason = "ALLOWED_PATHS_VIOLATION"
        /\ audits[j] # <<>>
        /\ audits[j][Len(audits[j])] = [decision |-> "deny", rule_id |-> "allowed_paths"]

\* The place of a stage in the pipeline, 0 for what is not one of its stages.
StageRank(stage) ==
    IF \E i \in 1..Len(StageNames) : StageNames[i] = stage
    THEN CHOOSE i \in 1..Len(StageNames) : StageNames[i] = stage
    ELSE 0

\* C36: a job becomes completed only by the pr stage of a dispatch that went
\* through triage, plan, execute, test, review and pr in this order, each once
\* (a dispatch moves from a stage to the next one or returns); and a step of a
\* dispatch that is in its stages never moves the job's current_stage backwards.
C36_StagesInOrder ==
    [][ /\ \A w \in Workers :
            workers'[w].pc # workers[w].pc =>
                \/ workers'[w].pc = "idle"
                \/ workers[w].pc = "idle" /\ workers'[w].pc \in {"await_approval", "start"}
                \/ workers[w].pc \notin {"idle", "await_approval"}
                        /\ workers'[w].pc = NextPc(workers[w].pc)
        /\ \A j \in JobIds :
            (jobs'[j].status = "completed" /\ jobs[j].status # "completed") =>
                \E w \in Workers :
                    /\ workers[w].pc = "pr"
                    /\ workers[w].job_id = j
                    /\ workers'[w].pc = "idle"
        /\ \A w \in Workers :
            (StageRank(workers[w].pc) > 0 /\ workers'[w] # workers[w]) =>
                StageRank(jobs'[workers[w].job_id].current_stage)
                    >= StageRank(jobs[workers[w].job_id].current_stage)
      ]_vars

\* ------------------------------------------------- dispatches left alone

\* Real mode, one worker; approvals and rejections arrive only while no dispatch
\* of the job is under way; messages may be delivered again.
NextQuiet ==
    \/ \E k \in {"code", "infra"} : create_job([CreateBase EXCEPT !.risk_class = k])
    \/ \E j \in JobIds : ~ InProcess(j) /\ approve_job(j, "infra")
    \/ \E j \in JobIds : ~ InProcess(j) /\ reject_job(j, "not wanted")
    \/ kill_switch
    \/ \E j \in JobIds : Redeliver(j)
    \/ \E w \in Workers : Runner(w)

SpecQuiet == InitRelease /\ [][NextQuiet]_vars

\* C37: a dispatch of an existing job that returns, with no control-plane
\* operation on the job during the dispatch, leaves the job awaiting_approval,
\* completed or failed, or rejected if it was rejected when the dispatch began;
\* it never leaves the job queued or running.
C37_DispatchEndsSettled ==
    [][ /\ \A w \in Workers :
            (workers[w].pc # "idle" /\ workers'[w].pc = "idle")
                => jobs'[workers[w].job_id].status \in {"awaiting_approval", "completed", "failed"}
        /\ \A j \in JobIds :
            (Dispatched(j) /\ workers' = workers)
                => \/ jobs'[j].status \in {"completed", "failed"}
                   \/ jobs'[j].status = "rejected" /\ jobs[j].status = "rejected"
      ]_vars

\* A redelivered message of a rejected job has been taken from the queue and
\* the job is still rejected.
C37_Witness ==
    /\ redelivered > 0
    /\ \E j \in JobIds :
        /\ jobs[j].status = "rejected"
        /\ queue[j] = 0
        /\ ~ InProcess(j)
        /\ Last(events[j]) = [stage |-> "approval", event_type |-> "rejected"]

\* ------------------------------------------------- two workers and a tight cap

\* caps.max_usd of the request: 0.0002 USD, room for the three completion calls
\* of one simulated-mode dispatch and no more.
TightCapsMaxUsd == 200

\* Two workers and one job with the tight cap, whose message may be delivered
\* again.
NextCapRace ==
    \/ create_job([CreateBase EXCEPT !.caps = <<TightCapsMaxUsd>>])
    \/ \E j \in JobIds : Redeliver(j)
    \/ \E w \in Workers : Runner(w)

SpecCapRace == InitRace /\ [][NextCapRace]_vars

\* C38: every completed job has cost_usd <= caps.max_usd, the cost being the one
\* accumulated over all the dispatches of the job.
C38_CompletedWithinCap ==
    \A j \in JobIds : jobs[j].status = "completed" => jobs[j].cost_usd <= jobs[j].caps_max_usd

\* ------------------------------------------------- webhooks and the kill switch

\* Webhook deliveries of every kind while the kill switch is set and cleared and
\* time passes.
NextSwitch ==
    \/ \E req \in WebhookInputs : github_webhook(req)
    \/ kill_switch
    \/ resume
    \/ WindowExpires

SpecSwitch == InitDedupe /\ [][NextSwitch]_vars

\* C39: while the kill-switch flag is false, a webhook that has passed the
\* signature check is answered accepted=false and cannot create a job, an event
\* or a queue message, whatever its event type, labels or repository.
C39_KillSwitchStopsWebhooks ==
    agents_flag = "false" =>
        \A req \in WebhookInputs :
            /\ ~ webhook_result(req).accepted
            /\ ~ ENABLED (github_webhook(req) /\ <<jobs, events, queue>>' # <<jobs, events, queue>>)

\* The kill switch is active, no job exists, and the delivery that would
\* otherwise create the first job is answered with "Kill switch active.".
C39_Witness ==
    /\ agents_flag = "false"
    /\ incidents # <<>>
    /\ jobs = <<>>
    /\ webhook_result(WebhookBase) =
            [accepted |-> FALSE, message |-> <<"Kill switch active.">>, job_id |-> None]
    /\ ~ ENABLED (github_webhook(WebhookBase) /\ jobs' # jobs)

\* Caller c has acquired the lock of its key and its action has not returned yet.
RunsAction(c) == call[c].fn = "with_redis_lock" /\ call[c].pc = "acquired"

\* C40: on the in-process client two concurrent with_redis_lock calls on the
\* same key never run their actions at the same time, also when both are the
\* first calls on the key and InMemoryRedis.lock creates its lock object.
C40_InMemoryLockExcludes ==
    \A c \in Callers : \A other \in Callers \ {c} :
        (RunsAction(c) /\ RunsAction(other)) => call[c].key # call[other].key

====
